---- MODULE Spec2Model ----
(***************************************************************************)
(* Entropy-coding core of the block codec (src/src/entropy.c): bit stream  *)
(* I/O, zigzag scanning, run-length coding, Huffman code construction and  *)
(* the block encoder / decoder built on top of them.                       *)
(***************************************************************************)
EXTENDS Integers, Naturals, Sequences, FiniteSets, TLC

\* ------------------------------------------------------------------------
\* Bounds of the explored input space
\* ------------------------------------------------------------------------
\* largest capacity (bytes) handed to bit_writer_init
MaxCap == 3
\* number of write calls (single-bit or string) explored per writer
MaxWrites == 4

\* block sizes 1..MaxZigN are scanned besides the sizes 8 and 16
MaxZigN == 4

\* longest sequence handed to run_length_encode on its own
MaxRleLen == 5

\* largest alphabet handed to build_huffman_codes on its own
MaxSyms == 5
\* largest frequency of a symbol in those alphabets
MaxFreq == 3

\* coefficients of the 2 x 2 blocks handed to the block encoder: -1..MaxCoef
MaxCoef == 2

\* number of cells (in row-major order) that the one-cell 4 x 4 sample blocks set
MaxDctCells == 6

\* block sizes handed to the init functions: -MaxInitSize..MaxInitSize
MaxInitSize == 16
MaxImageDim == 4

\* magnitude of the integer coefficients handed to dequantize
MaxLevel == 2

\* bytes of the caller's allocation that lie behind the declared capacity
Slack == 1
\* possible contents of the caller's buffer before bit_writer_init touches it
GarbageBytes == {170}

\* ------------------------------------------------------------------------
\* Integer helpers (C operators on non-negative ints)
\* ------------------------------------------------------------------------
Pow2(k) == 2 ^ k

\* (x >> k) & 1 for an int x with 0 <= x < 2^31 (bit 31 of such an x is 0)
BitOf(x, k) == IF k >= 31 THEN 0 ELSE (x \div Pow2(k)) % 2

Min(a, b) == IF a < b THEN a ELSE b

\* ------------------------------------------------------------------------
\* Bit stream I/O
\* ------------------------------------------------------------------------
\* the 24 bits 10101010 01010101 11110000
Pattern24 == <<1,0,1,0,1,0,1,0, 0,1,0,1,0,1,0,1, 1,1,1,1,0,0,0,0>>

\* strings of '0'/'1' characters handed to bit_writer_write_bits
BitStrings == { <<"1","0","1","0","1","0","1","0">>,
                <<"0","1","0","1","0","1","0","1">>,
                <<"1","1","1","1","0","0","0","0">>,
                <<"1","1","0">> }

\* BitWriter *bit_writer_init(buffer, capacity): memset(buffer, 0, capacity)
bit_writer_init(buffer, capacity) ==
    [ buffer   |-> [i \in 1..Len(buffer) |-> IF i <= capacity THEN 0 ELSE buffer[i]],
      capacity |-> capacity,
      byte_pos |-> 0,
      bit_pos  |-> 0 ]

\* variant: bits packed LSB-first, buffer[byte_pos] |= (1 << bit_pos)
OrBit_lsb(byte, bit_pos) ==
    IF BitOf(byte, bit_pos) = 1 THEN byte ELSE byte + Pow2(bit_pos)

\* buffer[byte_pos] |= (1 << (7 - bit_pos))
OrBit(byte, bit_pos) ==
    IF BitOf(byte, 7 - bit_pos) = 1 THEN byte ELSE byte + Pow2(7 - bit_pos)

\* variant: capacity test off by one, byte_pos > capacity
bit_writer_write_bit_offbyone(w, bit) ==
    IF w.byte_pos > w.capacity
    THEN [w |-> w, ret |-> -1]
    ELSE LET buf == IF bit /= 0
                    THEN [w.buffer EXCEPT ![w.byte_pos + 1] =
                             IF BitOf(@, 7 - w.bit_pos) = 1 THEN @ ELSE @ + Pow2(7 - w.bit_pos)]
                    ELSE w.buffer
             bp  == w.bit_pos + 1
         IN  [w |-> [ buffer   |-> buf,
                      capacity |-> w.capacity,
                      byte_pos |-> IF bp = 8 THEN w.byte_pos + 1 ELSE w.byte_pos,
                      bit_pos  |-> IF bp = 8 THEN 0 ELSE bp ],
              ret |-> 0]

\* int bit_writer_write_bit(writer, bit): the writer afterwards and the return value
bit_writer_write_bit(w, bit) ==
    IF w.byte_pos >= w.capacity
    THEN [w |-> w, ret |-> -1]
    ELSE LET buf == IF bit /= 0
                    THEN [w.buffer EXCEPT ![w.byte_pos + 1] = OrBit(@, w.bit_pos)]
                    ELSE w.buffer
             bp  == w.bit_pos + 1
         IN  [w |-> [ buffer   |-> buf,
                      capacity |-> w.capacity,
                      byte_pos |-> IF bp = 8 THEN w.byte_pos + 1 ELSE w.byte_pos,
                      bit_pos  |-> IF bp = 8 THEN 0 ELSE bp ],
              ret |-> 0]

\* int bit_writer_write_bits(writer, bits, length): loop from index i (1-based)
RECURSIVE write_bits_from(_, _, _, _)
write_bits_from(w, bits, length, i) ==
    IF i > length
    THEN [w |-> w, ret |-> 0, done |-> length]
    ELSE LET bit == IF bits[i] = "1" THEN 1 ELSE 0
             r   == bit_writer_write_bit(w, bit)
         IN  IF r.ret < 0
             THEN [w |-> w, ret |-> -1, done |-> i - 1]
             ELSE write_bits_from(r.w, bits, length, i + 1)

bit_writer_write_bits(w, bits, length) == write_bits_from(w, bits, length, 1)

\* int bit_writer_free(writer): bytes used, partial byte included
bit_writer_free(w) == IF w.bit_pos > 0 THEN w.byte_pos + 1 ELSE w.byte_pos

\* BitReader *bit_reader_init(buffer, capacity)
bit_reader_init(buffer, capacity) ==
    [ buffer |-> buffer, capacity |-> capacity, byte_pos |-> 0, bit_pos |-> 0 ]

\* int bit_reader_read_bit(reader, &bit): reader afterwards, return value, bit
bit_reader_read_bit(r) ==
    IF r.byte_pos >= r.capacity
    THEN [r |-> r, ret |-> -1, bit |-> 0]
    ELSE LET bp == r.bit_pos + 1
         IN  [r |-> [ buffer   |-> r.buffer,
                      capacity |-> r.capacity,
                      byte_pos |-> IF bp = 8 THEN r.byte_pos + 1 ELSE r.byte_pos,
                      bit_pos  |-> IF bp = 8 THEN 0 ELSE bp ],
              ret |-> 0,
              bit |-> BitOf(r.buffer[r.byte_pos + 1], 7 - r.bit_pos)]

\* ------------------------------------------------------------------------
\* Zigzag scanner
\* ------------------------------------------------------------------------
\* variant: the table lists cell positions in traversal order
zigzag_pattern_4x4_traversal ==
    <<0, 1, 4, 8,  5, 2, 3, 6,  9, 12, 13, 10,  7, 11, 14, 15>>

zigzag_pattern_4x4 ==
    <<0, 1, 5, 6,  2, 4, 7, 12,  3, 8, 11, 13,  9, 10, 14, 15>>

zigzag_pattern_8x8 ==
    << 0,  1,  5,  6, 14, 15, 27, 28,
       2,  4,  7, 13, 16, 26, 29, 42,
       3,  8, 12, 17, 25, 30, 41, 43,
       9, 11, 18, 24, 31, 40, 44, 53,
      10, 19, 23, 32, 39, 45, 52, 54,
      20, 22, 33, 38, 46, 51, 55, 60,
      21, 34, 37, 47, 50, 56, 59, 61,
      35, 36, 48, 49, 57, 58, 62, 63>>

\* value of a pattern cell that malloc returned and the loop never stored
Unset == -1

\* one iteration of the while loop of generate_zigzag_pattern; pattern is
\* indexed 1..n here (C index + 1); oob records a store outside the allocation
zigzag_step(st, block_size) ==
    LET at  == st.row * block_size + st.col
        inb == at >= 0 /\ at < block_size * block_size
        pat == IF inb THEN [st.pattern EXCEPT ![at + 1] = st.index] ELSE st.pattern
        mv  == IF st.going_up
               THEN IF st.col = block_size - 1 THEN <<st.row + 1, st.col, FALSE>>
                    ELSE IF st.row = 0 THEN <<st.row, st.col + 1, FALSE>>
                    ELSE <<st.row - 1, st.col + 1, TRUE>>
               ELSE IF st.row = block_size - 1 THEN <<st.row, st.col + 1, TRUE>>
                    ELSE IF st.col = 0 THEN <<st.row + 1, st.col, TRUE>>
                    ELSE <<st.row + 1, st.col - 1, FALSE>>
    IN  [pattern |-> pat, oob |-> st.oob \/ ~inb, index |-> st.index + 1,
         row |-> mv[1], col |-> mv[2], going_up |-> mv[3]]

\* k consecutive iterations of the loop (the loop runs while index < n)
RECURSIVE zigzag_walk(_, _, _)
zigzag_walk(st, k, block_size) ==
    IF k <= 0 THEN st
    ELSE IF k = 1 THEN zigzag_step(st, block_size)
    ELSE LET half == zigzag_walk(st, k \div 2, block_size)
         IN  IF half.index >= 0   \* always true: the first half is computed first
             THEN zigzag_walk(half, k - (k \div 2), block_size)
             ELSE half

\* static int *generate_zigzag_pattern(int block_size)
generate_zigzag_pattern(block_size) ==
    IF block_size = 4 THEN [pattern |-> zigzag_pattern_4x4, oob |-> FALSE]
    ELSE IF block_size = 8 THEN [pattern |-> zigzag_pattern_8x8, oob |-> FALSE]
    ELSE zigzag_walk([pattern |-> [i \in 1..(block_size * block_size) |-> Unset],
                      oob |-> FALSE, index |-> 0, row |-> 0, col |-> 0,
                      going_up |-> TRUE],
                     block_size * block_size, block_size)

\* void zigzag_scan(block, output, block_size); block[row + 1][col + 1]
zigzag_scan(block, block_size) ==
    LET pattern == generate_zigzag_pattern(block_size).pattern
    IN  [i \in 1..(block_size * block_size) |->
            block[(pattern[i] \div block_size) + 1][(pattern[i] % block_size) + 1]]

\* variant: the inverse placement swaps row and column
unzigzag_store_transposed(output, zigzag_data, pattern, block_size, i) ==
    LET pos == pattern[i]
        row == pos % block_size
        col == pos \div block_size
    IN  IF row < block_size /\ col < block_size
        THEN [output EXCEPT ![row + 1][col + 1] = zigzag_data[i]]
        ELSE output

\* body of the "Fill with zigzag data" loop of entropy_decode_block
unzigzag_store(output, zigzag_data, pattern, block_size, i) ==
    LET pos == pattern[i]
        row == pos \div block_size
        col == pos % block_size
    IN  IF row < block_size /\ col < block_size
        THEN [output EXCEPT ![row + 1][col + 1] = zigzag_data[i]]
        ELSE output

\* the loop for i = lo..hi, in increasing order of i
RECURSIVE unzigzag_place(_, _, _, _, _, _)
unzigzag_place(output, zigzag_data, pattern, block_size, lo, hi) ==
    IF lo > hi THEN output
    ELSE IF lo = hi THEN unzigzag_store(output, zigzag_data, pattern, block_size, lo)
    ELSE LET mid   == (lo + hi) \div 2
             first == unzigzag_place(output, zigzag_data, pattern, block_size, lo, mid)
         IN  IF Len(first) = block_size   \* always true: lo..mid is done first
             THEN unzigzag_place(first, zigzag_data, pattern, block_size, mid + 1, hi)
             ELSE first

\* reverse zigzag scan of entropy_decode_block: zero the output, then place
unzigzag(zigzag_data, block_size) ==
    unzigzag_place([r \in 1..block_size |-> [c \in 1..block_size |-> 0]],
                   zigzag_data, generate_zigzag_pattern(block_size).pattern,
                   block_size, 1, block_size * block_size)

\* ------------------------------------------------------------------------
\* Run-length coder
\* ------------------------------------------------------------------------
\* variant: the zero-run counter is not reset after a value
run_length_step_noreset(st, v) ==
    IF v = 0
    THEN [symbols |-> st.symbols, zero_run |-> st.zero_run + 1]
    ELSE [symbols  |-> Append(st.symbols, [run_length |-> st.zero_run, value |-> v]),
          zero_run |-> st.zero_run]

\* body of the for loop of run_length_encode for one element v
run_length_step(st, v) ==
    IF v = 0
    THEN [symbols |-> st.symbols, zero_run |-> st.zero_run + 1]
    ELSE [symbols  |-> Append(st.symbols, [run_length |-> st.zero_run, value |-> v]),
          zero_run |-> 0]

RECURSIVE run_length_loop(_, _, _, _)
run_length_loop(st, zigzag_data, length, i) ==
    IF i > length THEN st
    ELSE LET nxt == run_length_step(st, zigzag_data[i])
         IN  IF nxt.zero_run >= 0   \* always true
             THEN run_length_loop(nxt, zigzag_data, length, i + 1)
             ELSE nxt

\* variant: the end-of-block pair is appended after every sequence
run_length_encode_always_eob(zigzag_data, length) ==
    LET st == run_length_loop([symbols |-> <<>>, zero_run |-> 0], zigzag_data, length, 1)
    IN  Append(st.symbols, [run_length |-> 0, value |-> 0])

\* void run_length_encode(zigzag_data, length, rle_symbols, rle_count):
\* the symbols stored, rle_count being their number
run_length_encode(zigzag_data, length) ==
    LET st == run_length_loop([symbols |-> <<>>, zero_run |-> 0], zigzag_data, length, 1)
    IN  IF st.zero_run > 0
        THEN Append(st.symbols, [run_length |-> 0, value |-> 0])
        ELSE st.symbols

\* zigzag_data with positions from (0-based) .. to - 1 set to zero
ZeroRange(zigzag_data, from, to) ==
    [i \in 1..Len(zigzag_data) |-> IF i > from /\ i <= to THEN 0 ELSE zigzag_data[i]]

\* variant: the value is stored without advancing zigzag_pos
expand_symbol_in_place(zigzag_data, zigzag_pos, run, value, total_size) ==
    LET p1 == Min(zigzag_pos + run, total_size)
        z1 == ZeroRange(zigzag_data, zigzag_pos, p1)
        z2 == IF p1 < total_size THEN [z1 EXCEPT ![p1 + 1] = value] ELSE z1
    IN  IF run = 0 /\ value = 0
        THEN [data |-> ZeroRange(z2, p1, total_size), pos |-> total_size, stop |-> TRUE]
        ELSE [data |-> z2, pos |-> p1, stop |-> FALSE]

\* entropy_decode_block, "Add zeros for the run" to the end-of-block test, for
\* one decoded pair: the data, zigzag_pos and whether the symbol loop stops
expand_symbol(zigzag_data, zigzag_pos, run, value, total_size) ==
    LET p1 == Min(zigzag_pos + run, total_size)
        z1 == ZeroRange(zigzag_data, zigzag_pos, p1)
        z2 == IF p1 < total_size THEN [z1 EXCEPT ![p1 + 1] = value] ELSE z1
        p2 == IF p1 < total_size THEN p1 + 1 ELSE p1
    IN  IF run = 0 /\ value = 0
        THEN [data |-> ZeroRange(z2, p2, total_size), pos |-> total_size, stop |-> TRUE]
        ELSE [data |-> z2, pos |-> p2, stop |-> FALSE]

\* the symbol loop of entropy_decode_block fed with pairs instead of bits:
\* it ends when total_size positions are filled, at end-of-block, or when
\* the pairs run out; the rest is then filled with zeros
RECURSIVE rle_expand_loop(_, _, _, _, _)
rle_expand_loop(zigzag_data, zigzag_pos, symbols, k, total_size) ==
    IF zigzag_pos >= total_size \/ k > Len(symbols)
    THEN ZeroRange(zigzag_data, zigzag_pos, total_size)
    ELSE LET e == expand_symbol(zigzag_data, zigzag_pos,
                                symbols[k].run_length, symbols[k].value, total_size)
         IN  IF e.stop
             THEN ZeroRange(e.data, e.pos, total_size)
             ELSE rle_expand_loop(e.data, e.pos, symbols, k + 1, total_size)

rle_expand(symbols, total_size) ==
    rle_expand_loop([i \in 1..total_size |-> 0], 0, symbols, 1, total_size)

\* ------------------------------------------------------------------------
\* Huffman coder
\* ------------------------------------------------------------------------
\* entries of the calloc'ed code table ("16-bit symbols max")
CodeTableSize == 65536
\* generate_codes does not descend below this depth
MaxCodeDepth == 255

\* an unsigned (32 bits) is kept as the pair <<bits 31..16, bits 15..0>>
U32(n) == <<n \div 65536, n % 65536>>
u32_less(a, b) == a[1] < b[1] \/ (a[1] = b[1] /\ a[2] < b[2])
u32_leq(a, b) == ~u32_less(b, a)
\* a + b on unsigned: the sum modulo 2^32
u32_add(a, b) ==
    <<(a[1] + b[1] + ((a[2] + b[2]) \div 65536)) % 65536, (a[2] + b[2]) % 65536>>
\* a << d on unsigned for d < 32: the bits shifted out are lost
RECURSIVE u32_shl(_, _)
u32_shl(a, d) ==
    IF d <= 0 THEN a
    ELSE u32_shl(<<(a[1] * 2 + (a[2] \div 32768)) % 65536, (a[2] * 2) % 65536>>, d - 1)
\* (a >> s) & 1 on unsigned for s < 32
u32_bit(a, s) ==
    IF s < 16 THEN (a[2] \div Pow2(s)) % 2 ELSE (a[1] \div Pow2(s - 16)) % 2

\* a shift of an unsigned by 32 or more is undefined: the processor takes the
\* count modulo 32 (x86), or shifts every bit out
WideShifts == {"masked", "zero"}

\* a HuffNode is <<symbol, frequency, left, right>>; NULL is the empty tuple
NULL == <<>>
create_huffman_node(symbol, frequency) == <<symbol, frequency, NULL, NULL>>
NodeSymbol(node) == node[1]
NodeFreq(node)   == node[2]
NodeLeft(node)   == node[3]
NodeRight(node)  == node[4]

\* HuffmanPQ *pq_init(int capacity); nodes[i + 1] is the C element nodes[i]
pq_init(capacity) == [nodes |-> <<>>, capacity |-> capacity, size |-> 0]

\* "Bubble up" loop of pq_push from index i (0-based)
RECURSIVE pq_bubble_up(_, _)
pq_bubble_up(nodes, i) ==
    IF i <= 0 THEN nodes
    ELSE LET parent == (i - 1) \div 2
         IN  IF u32_leq(NodeFreq(nodes[parent + 1]), NodeFreq(nodes[i + 1]))
             THEN nodes
             ELSE pq_bubble_up([nodes EXCEPT ![parent + 1] = nodes[i + 1],
                                             ![i + 1] = nodes[parent + 1]], parent)

\* void pq_push(HuffmanPQ *pq, HuffNode *node)
pq_push(pq, node) ==
    LET cap == IF pq.size = pq.capacity THEN pq.capacity * 2 ELSE pq.capacity
    IN  [nodes    |-> pq_bubble_up(Append(pq.nodes, node), pq.size),
         capacity |-> cap,
         size     |-> pq.size + 1]

\* variant: a bubble down that looks at the left child only
RECURSIVE pq_bubble_down_left(_, _, _)
pq_bubble_down_left(nodes, size, i) ==
    LET left  == 2 * i + 1
        smallest == IF left < size /\ u32_less(NodeFreq(nodes[left + 1]), NodeFreq(nodes[i + 1]))
                    THEN left ELSE i
    IN  IF smallest = i THEN nodes
        ELSE pq_bubble_down_left([nodes EXCEPT ![i + 1] = nodes[smallest + 1],
                                               ![smallest + 1] = nodes[i + 1]],
                                 size, smallest)

\* "Bubble down" loop of pq_pop from index i over size live entries
RECURSIVE pq_bubble_down(_, _, _)
pq_bubble_down(nodes, size, i) ==
    LET left  == 2 * i + 1
        right == 2 * i + 2
        s1 == IF left < size /\ u32_less(NodeFreq(nodes[left + 1]), NodeFreq(nodes[i + 1]))
              THEN left ELSE i
        smallest == IF right < size /\ u32_less(NodeFreq(nodes[right + 1]),
                                                NodeFreq(nodes[s1 + 1]))
                    THEN right ELSE s1
    IN  IF smallest = i THEN nodes
        ELSE pq_bubble_down([nodes EXCEPT ![i + 1] = nodes[smallest + 1],
                                          ![smallest + 1] = nodes[i + 1]],
                            size, smallest)

\* HuffNode *pq_pop(HuffmanPQ *pq): the queue afterwards and the node returned
pq_pop(pq) ==
    IF pq.size = 0
    THEN [pq |-> pq, min |-> NULL]
    ELSE LET size  == pq.size - 1
             moved == IF size = 0 THEN <<>>
                      ELSE [SubSeq(pq.nodes, 1, size) EXCEPT ![1] = pq.nodes[size + 1]]
         IN  [pq  |-> [nodes    |-> IF size = 0 THEN moved
                                    ELSE pq_bubble_down(moved, size, 0),
                       capacity |-> pq.capacity,
                       size     |-> size],
              min |-> pq.nodes[1]]

\* the code table is zeroed by calloc; only the entries stored are kept here
EmptyCodes == [s \in {} |-> [bits |-> NULL, length |-> 0]]
CodeLength(codes, symbol) == IF symbol \in DOMAIN codes THEN codes[symbol].length ELSE 0
CodeBits(codes, symbol) == IF symbol \in DOMAIN codes THEN codes[symbol].bits ELSE NULL
SetCode(codes, symbol, bits, length) ==
    [s \in (DOMAIN codes) \cup {symbol} |->
        IF s = symbol THEN [bits |-> bits, length |-> length] ELSE codes[s]]

\* variant: both branches append '0'
RECURSIVE generate_codes_samebit(_, _, _, _)
generate_codes_samebit(node, code, depth, codes) ==
    IF node = NULL THEN codes
    ELSE IF NodeLeft(node) = NULL /\ NodeRight(node) = NULL
    THEN IF NodeSymbol(node) < 0 \/ NodeSymbol(node) >= CodeTableSize
         THEN codes
         ELSE SetCode(codes, NodeSymbol(node), code, depth)
    ELSE IF depth >= MaxCodeDepth THEN codes
    ELSE LET afterLeft == generate_codes_samebit(NodeLeft(node), Append(code, "0"),
                                                 depth + 1, codes)
         IN  generate_codes_samebit(NodeRight(node), Append(code, "0"), depth + 1, afterLeft)

\* static void generate_codes(node, code, depth, codes); code holds the depth
\* characters code[0..depth-1] set on the way down
RECURSIVE generate_codes(_, _, _, _)
generate_codes(node, code, depth, codes) ==
    IF node = NULL THEN codes
    ELSE IF NodeLeft(node) = NULL /\ NodeRight(node) = NULL
    THEN IF NodeSymbol(node) < 0 \/ NodeSymbol(node) >= CodeTableSize
         THEN codes
         ELSE SetCode(codes, NodeSymbol(node), code, depth)
    ELSE IF depth >= MaxCodeDepth THEN codes
    ELSE LET afterLeft == generate_codes(NodeLeft(node), Append(code, "0"),
                                         depth + 1, codes)
         IN  generate_codes(NodeRight(node), Append(code, "1"), depth + 1, afterLeft)

\* first loop of build_huffman_codes: one leaf per symbol, pushed in order
RECURSIVE huffman_push_leaves(_, _, _, _, _)
huffman_push_leaves(pq, symbols, frequencies, count, i) ==
    IF i > count THEN pq
    ELSE huffman_push_leaves(pq_push(pq, create_huffman_node(symbols[i], frequencies[i])),
                             symbols, frequencies, count, i + 1)

\* "Build the Huffman tree" loop; left->frequency + right->frequency is an
\* unsigned sum
RECURSIVE huffman_merge(_)
huffman_merge(pq) ==
    IF pq.size <= 1 THEN pq
    ELSE LET p1 == pq_pop(pq)
             p2 == pq_pop(p1.pq)
             parent == <<-1, u32_add(NodeFreq(p1.min), NodeFreq(p2.min)), p1.min, p2.min>>
         IN  huffman_merge(pq_push(p2.pq, parent))

\* root of the tree built by build_huffman_codes (NULL when count = 0)
huffman_tree(symbols, frequencies, count) ==
    pq_pop(huffman_merge(huffman_push_leaves(pq_init(count), symbols, frequencies,
                                             count, 1))).min

\* HuffCode *build_huffman_codes(symbols, frequencies, count)
build_huffman_codes(symbols, frequencies, count) ==
    LET root == huffman_tree(symbols, frequencies, count)
    IN  IF root /= NULL THEN generate_codes(root, <<>>, 0, EmptyCodes) ELSE EmptyCodes

\* ------------------------------------------------------------------------
\* Block encoder
\* ------------------------------------------------------------------------
\* #define MAX_SYMBOLS 65536
MAX_SYMBOLS == 65536
\* largest run length kept by the encoder
RunCap == 255

\* "Encode sign + magnitude for value" of entropy_encode_block
fold_value(value) ==
    IF value = 0 THEN 0
    ELSE IF value > 0
         THEN IF value < 32768 THEN value * 2 ELSE 65534
         ELSE IF (-value) < 32768 THEN ((-value) * 2) + 1 ELSE 65535

\* original_symbols[i] = (run << 16) | encoded_value, run capped
original_symbol(run_length, value) ==
    (IF run_length > RunCap THEN RunCap ELSE run_length) * 65536 + fold_value(value)

\* content of an int the code has malloc'ed but not stored yet
Uninit == -7

\* the lookup loop "for (j = 0; j < unique_count; j++)": the j it ends with
RECURSIVE lookup_symbol(_, _, _, _)
lookup_symbol(original_symbols, i, unique_count, j) ==
    IF j >= unique_count THEN unique_count
    ELSE IF original_symbols[j + 1] = original_symbols[i + 1] THEN j
    ELSE lookup_symbol(original_symbols, i, unique_count, j + 1)

\* one iteration (0-based i) of the "gather unique symbols" loop
map_symbol_step(st, rle_symbols, i) ==
    LET orig == [st.original_symbols EXCEPT
                    ![i + 1] = original_symbol(rle_symbols[i + 1].run_length,
                                               rle_symbols[i + 1].value)]
        j    == lookup_symbol(orig, i, st.unique_count, 0)
    IN  IF j < st.unique_count
        THEN [original_symbols |-> orig,
              symbol_indices   |-> [st.symbol_indices EXCEPT ![i + 1] = j],
              frequencies      |-> [st.frequencies EXCEPT ![j + 1] = @ + 1],
              unique_count     |-> st.unique_count,
              broke            |-> FALSE]
        ELSE IF st.unique_count >= MAX_SYMBOLS
        THEN [original_symbols |-> orig,
              symbol_indices   |-> st.symbol_indices,
              frequencies      |-> st.frequencies,
              unique_count     |-> st.unique_count,
              broke            |-> TRUE]
        ELSE [original_symbols |-> orig,
              symbol_indices   |-> [st.symbol_indices EXCEPT
                                       ![st.unique_count + 1] = st.unique_count,
                                       ![i + 1] = j],
              frequencies      |-> [st.frequencies EXCEPT ![st.unique_count + 1] = 1],
              unique_count     |-> st.unique_count + 1,
              broke            |-> FALSE]

RECURSIVE map_symbols_loop(_, _, _, _)
map_symbols_loop(st, rle_symbols, rle_count, i) ==
    IF i >= rle_count \/ st.broke THEN st
    ELSE LET nxt == map_symbol_step(st, rle_symbols, i)
         IN  IF nxt.unique_count >= 0   \* always true
             THEN map_symbols_loop(nxt, rle_symbols, rle_count, i + 1)
             ELSE nxt

\* Step 3 of entropy_encode_block: original_symbols and symbol_indices are
\* malloc'ed, frequencies calloc'ed, all with rle_count entries
map_symbols(rle_symbols, rle_count) ==
    map_symbols_loop([original_symbols |-> [k \in 1..rle_count |-> Uninit],
                      symbol_indices   |-> [k \in 1..rle_count |-> Uninit],
                      frequencies      |-> [k \in 1..rle_count |-> 0],
                      unique_count     |-> 0,
                      broke            |-> FALSE],
                     rle_symbols, rle_count, 0)

\* "for (j = 0; j < nbits; j++) bit_writer_write_bit(writer, (v >> (nbits-1-j)) & 1)"
\* with the return values dropped as the code drops them; failed records
\* whether one of the calls returned -1
RECURSIVE write_int(_, _, _, _)
write_int(ws, v, nbits, j) ==
    IF j >= nbits THEN ws
    ELSE LET r == bit_writer_write_bit(ws.w, BitOf(v, nbits - 1 - j))
         IN  IF r.ret <= 0   \* always true
             THEN write_int([w |-> r.w, failed |-> ws.failed \/ r.ret < 0],
                            v, nbits, j + 1)
             ELSE ws

\* per-symbol loop of encode_symbol_table (0-based i)
RECURSIVE encode_table_entries(_, _, _, _, _, _)
encode_table_entries(ws, symbols, original_symbols, count, codes, i) ==
    IF i >= count THEN ws
    ELSE LET w32 == write_int(ws, original_symbols[i + 1], 32, 0)
             w8  == write_int(w32, CodeLength(codes, symbols[i + 1]), 8, 0)
         IN  IF w32.failed \in BOOLEAN /\ w8.failed \in BOOLEAN   \* always true
             THEN encode_table_entries(w8, symbols, original_symbols, count, codes, i + 1)
             ELSE w8

\* static int encode_symbol_table(writer, symbols, original_symbols, count, codes);
\* it returns 0 whatever the writes returned
encode_symbol_table(ws, symbols, original_symbols, count, codes) ==
    LET w16 == write_int(ws, count, 16, 0)
    IN  IF w16.failed \in BOOLEAN   \* always true
        THEN encode_table_entries(w16, symbols, original_symbols, count, codes, 0)
        ELSE w16

\* "Write encoded data" loop of entropy_encode_block (0-based i)
RECURSIVE encode_payload(_, _, _, _, _)
encode_payload(ws, symbol_indices, rle_count, codes, i) ==
    IF i >= rle_count THEN ws
    ELSE LET index == symbol_indices[i + 1]
             r == bit_writer_write_bits(ws.w, CodeBits(codes, index),
                                        CodeLength(codes, index))
         IN  IF r.ret <= 0   \* always true
             THEN encode_payload([w |-> r.w, failed |-> ws.failed \/ r.ret < 0],
                                 symbol_indices, rle_count, codes, i + 1)
             ELSE ws

\* entropy_encode_block from step 2 on, on the zigzag_data of step 1: the
\* caller's buffer and *output_size afterwards, the value returned, and
\* whether a bit write was refused on the way
encode_zigzag_data(zigzag_data, total_size, output, output_size) ==
    LET \* "Clean up" and "return 0;"
        Finish(w2, rle_symbols, m, huffman_codes) ==
            [output      |-> w2.w.buffer,
             output_size |-> bit_writer_free(w2.w),
             ret         |-> 0,
             failed      |-> w2.failed,
             rle_symbols |-> rle_symbols,
             map         |-> m,
             codes       |-> huffman_codes]
        \* Step 5: the symbol table, then the code of every RLE symbol
        Write(rle_symbols, rle_count, m, unique_indices, huffman_codes) ==
            Finish(encode_payload(
                       encode_symbol_table(
                           [w |-> bit_writer_init(output, output_size), failed |-> FALSE],
                           unique_indices, m.original_symbols, m.unique_count,
                           huffman_codes),
                       m.symbol_indices, rle_count, huffman_codes, 0),
                   rle_symbols, m, huffman_codes)
        \* Step 4: Huffman codes for the indices 0 .. unique_count - 1
        Build(rle_symbols, rle_count, m, unique_indices) ==
            Write(rle_symbols, rle_count, m, unique_indices,
                  build_huffman_codes(unique_indices,
                                      [k \in 1..Len(m.frequencies) |-> U32(m.frequencies[k])],
                                      m.unique_count))
        \* Step 3: map the RLE symbols to unique indices
        Map(rle_symbols, rle_count) ==
            LET Indices(m) == Build(rle_symbols, rle_count, m,
                                    [k \in 1..m.unique_count |-> k - 1])
            IN  Indices(map_symbols(rle_symbols, rle_count))
        \* Step 2: run-length encoding
        Rle(rle_symbols) == Map(rle_symbols, Len(rle_symbols))
    IN  Rle(run_length_encode(zigzag_data, total_size))

\* int entropy_encode_block(ctx, block, output, output_size): step 1, the
\* zigzag scan into the malloc'ed zigzag_data, then the steps above
entropy_encode_block(block_size, block, output, output_size) ==
    encode_zigzag_data(zigzag_scan(block, block_size), block_size * block_size,
                       output, output_size)

\* ------------------------------------------------------------------------
\* Block decoder
\* ------------------------------------------------------------------------
\* variant: the result of bit_reader_read_bit is not tested, a missing bit
\* counts as 0
RECURSIVE read_int_unchecked(_, _, _, _)
read_int_unchecked(r, nbits, j, v) ==
    IF j >= nbits THEN [r |-> r, ret |-> 0, value |-> v]
    ELSE LET b == bit_reader_read_bit(r)
         IN  read_int_unchecked(b.r, nbits, j + 1, v * 2 + b.bit)

\* "for (j = 0; j < nbits; j++) { read bit; v = (v << 1) | bit; }" with the
\* early return on underflow; nbits <= 16 so v stays below 2^16
RECURSIVE read_int(_, _, _, _)
read_int(r, nbits, j, v) ==
    IF j >= nbits THEN [r |-> r, ret |-> 0, value |-> v]
    ELSE LET b == bit_reader_read_bit(r)
         IN  IF b.ret < 0
             THEN [r |-> r, ret |-> -1, value |-> v]
             ELSE read_int(b.r, nbits, j + 1, v * 2 + b.bit)

\* per-symbol loop of decode_symbol_table (0-based i). The 32-bit original
\* value is kept as the pair <<bits 31..16, bits 15..0>>, which is all the
\* decoder ever uses of it
RECURSIVE decode_table_entries(_, _, _)
decode_table_entries(st, num_symbols, i) ==
    IF i >= num_symbols THEN st
    ELSE LET hi  == read_int(st.r, 16, 0, 0)
             lo  == read_int(hi.r, 16, 0, 0)
             len == read_int(lo.r, 8, 0, 0)
         IN  IF hi.ret < 0 \/ lo.ret < 0 \/ len.ret < 0
             THEN [st EXCEPT !.ret = -1]
             ELSE decode_table_entries(
                      [r                |-> len.r,
                       ret              |-> 0,
                       symbols          |-> Append(st.symbols, i),
                       original_symbols |-> Append(st.original_symbols,
                                                   <<hi.value, lo.value>>),
                       codes            |-> SetCode(st.codes, i, NULL, len.value)],
                      num_symbols, i + 1)

\* static int decode_symbol_table(reader, &symbols, &original_symbols, &codes, &count)
decode_symbol_table(reader) ==
    LET n == read_int(reader, 16, 0, 0)
    IN  IF n.ret < 0
        THEN [r |-> reader, ret |-> -1, symbols |-> <<>>, original_symbols |-> <<>>,
              codes |-> EmptyCodes, count |-> 0]
        ELSE LET t == decode_table_entries(
                          [r |-> n.r, ret |-> 0, symbols |-> <<>>,
                           original_symbols |-> <<>>, codes |-> EmptyCodes],
                          n.value, 0)
             IN  [r |-> t.r, ret |-> t.ret, symbols |-> t.symbols,
                  original_symbols |-> t.original_symbols, codes |-> t.codes,
                  count |-> IF t.ret = 0 THEN n.value ELSE 0]

\* "if (codes[symbols[j]].length > codes[symbols[j + 1]].length)" swap
bubble_swap(symbols, codes, j) ==
    IF CodeLength(codes, symbols[j + 1]) > CodeLength(codes, symbols[j + 2])
    THEN [symbols EXCEPT ![j + 1] = symbols[j + 2], ![j + 2] = symbols[j + 1]]
    ELSE symbols

\* inner loop of the bubble sort in build_decoding_tree: j = from .. limit - 1;
\* each iteration works on the value the one before left
RECURSIVE bubble_pass(_, _, _, _)
bubble_pass(symbols, codes, j, limit) ==
    IF j >= limit THEN symbols
    ELSE CHOOSE done \in {bubble_pass(next, codes, j + 1, limit) :
                              next \in {bubble_swap(symbols, codes, j)}} : TRUE

\* outer loop of the bubble sort: i = from .. count - 2
RECURSIVE bubble_sort(_, _, _, _)
bubble_sort(symbols, codes, count, i) ==
    IF i >= count - 1 THEN symbols
    ELSE CHOOSE done \in {bubble_sort(next, codes, count, i + 1) :
                              next \in {bubble_pass(symbols, codes, 0, count - i - 1)}} : TRUE

\* "code_value <<= (length - last_len)"
shift_code(code_value, d, wide) ==
    IF d < 32 THEN u32_shl(code_value, d)
    ELSE IF wide = "masked" THEN u32_shl(code_value, d % 32)
    ELSE U32(0)

\* "((code_value >> (length - j - 1)) & 1) ? '1' : '0'"
code_bit(code_value, shift, wide) ==
    LET bit == IF shift < 32 THEN u32_bit(code_value, shift)
               ELSE IF wide = "masked" THEN u32_bit(code_value, shift % 32)
               ELSE 0
    IN  IF bit = 1 THEN "1" ELSE "0"

\* "Convert code_value to bit string": code_bits[j + 1] is the C code_bits[j]
code_bits_of(code_value, length, wide) ==
    [b \in 1..length |-> code_bit(code_value, length - (b - 1) - 1, wide)]

\* "Insert into tree": follow code_bits[j..] from node, creating nodes, and
\* set the symbol at the end; returns the rebuilt node
RECURSIVE tree_insert(_, _, _, _, _)
tree_insert(node, code_bits, length, j, symbol) ==
    IF j >= length
    THEN <<symbol, NodeFreq(node), NodeLeft(node), NodeRight(node)>>
    ELSE IF code_bits[j + 1] = "0"
    THEN LET child == IF NodeLeft(node) = NULL THEN create_huffman_node(-1, U32(0))
                      ELSE NodeLeft(node)
         IN  <<NodeSymbol(node), NodeFreq(node),
               tree_insert(child, code_bits, length, j + 1, symbol), NodeRight(node)>>
    ELSE LET child == IF NodeRight(node) = NULL THEN create_huffman_node(-1, U32(0))
                      ELSE NodeRight(node)
         IN  <<NodeSymbol(node), NodeFreq(node), NodeLeft(node),
               tree_insert(child, code_bits, length, j + 1, symbol)>>

\* one iteration of the "Generate and insert codes" loop for symbols[i]
\* (0-based i); code_value is an unsigned
assign_code(st, symbols, codes, i, wide) ==
    LET symbol == symbols[i + 1]
        length == CodeLength(codes, symbol)
        Insert(cv) ==
            [root       |-> tree_insert(st.root, code_bits_of(cv, length, wide),
                                        length, 0, symbol),
             code_value |-> u32_add(cv, U32(1)),
             last_len   |-> length,
             assigned   |-> Append(st.assigned,
                              [symbol |-> symbol, code_value |-> cv, length |-> length])]
    IN  IF length = 0 THEN st
        ELSE Insert(IF st.last_len /= 0 /\ length > st.last_len
                    THEN shift_code(st.code_value, length - st.last_len, wide)
                    ELSE st.code_value)

\* the "Generate and insert codes" loop from i on; each iteration works on
\* the value the one before left
RECURSIVE assign_codes(_, _, _, _, _, _)
assign_codes(st, symbols, codes, count, i, wide) ==
    IF i >= count THEN st
    ELSE CHOOSE done \in {assign_codes(next, symbols, codes, count, i + 1, wide) :
                              next \in {assign_code(st, symbols, codes, i, wide)}} : TRUE

\* static HuffNode *build_decoding_tree(symbols, codes, count)
build_decoding_tree(symbols, codes, count, wide) ==
    assign_codes([root |-> create_huffman_node(-1, U32(0)), code_value |-> U32(0),
                  last_len |-> 0, assigned |-> <<>>],
                 bubble_sort(symbols, codes, count, 0), codes, count, 0, wide)

\* "while (node->left || node->right)" walk of entropy_decode_block: the node
\* and reader it ends with and why it ended
RECURSIVE tree_walk(_, _)
tree_walk(node, r) ==
    IF NodeLeft(node) = NULL /\ NodeRight(node) = NULL
    THEN [node |-> node, r |-> r, why |-> "leaf"]
    ELSE LET b == bit_reader_read_bit(r)
         IN  IF b.ret < 0 THEN [node |-> node, r |-> r, why |-> "underflow"]
             ELSE IF b.bit = 0
             THEN IF NodeLeft(node) /= NULL THEN tree_walk(NodeLeft(node), b.r)
                  ELSE [node |-> node, r |-> b.r, why |-> "dead"]
             ELSE IF NodeRight(node) /= NULL THEN tree_walk(NodeRight(node), b.r)
                  ELSE [node |-> node, r |-> b.r, why |-> "dead"]

\* "Decode sign + magnitude"
unfold_value(encoded_value) ==
    IF encoded_value = 0 THEN 0
    ELSE IF encoded_value % 2 = 1 THEN -(encoded_value \div 2)
    ELSE encoded_value \div 2

\* "while (zigzag_pos < total_size)" loop of entropy_decode_block. A leaf
\* whose symbol is no index of the table makes the code read outside
\* original_symbols; stray is the pair found there
RECURSIVE decode_symbols(_, _, _, _, _)
decode_symbols(st, root, original_symbols, total_size, stray) ==
    IF st.pos >= total_size THEN [st EXCEPT !.stop = "full"]
    ELSE LET w == tree_walk(root, st.r)
         IN  IF w.why /= "leaf"
             THEN [st EXCEPT !.stop = w.why, !.r = w.r]
             ELSE LET symbol   == NodeSymbol(w.node)
                      inside   == symbol >= 0 /\ symbol < Len(original_symbols)
                      original == IF inside THEN original_symbols[symbol + 1] ELSE stray
                      e == expand_symbol(st.data, st.pos, original[1],
                                         unfold_value(original[2]), total_size)
                      nxt == [data |-> e.data, pos |-> e.pos, r |-> w.r,
                              stop |-> IF e.stop THEN "eob" ELSE "",
                              nsyms |-> st.nsyms + 1,
                              outside |-> st.outside \/ ~inside]
                  IN  IF e.stop THEN nxt
                      ELSE decode_symbols(nxt, root, original_symbols, total_size, stray)

\* variant: a symbol loop that ends on underflow or a dead branch is an error
decode_status_strict(stop) == IF stop \in {"underflow", "dead"} THEN -1 ELSE 0

\* "return 0;" at the end of entropy_decode_block, whatever ended the loop
decode_status(stop) == 0

\* int entropy_decode_block(ctx, input, input_size, output): the value
\* returned, the output block afterwards (output is the caller's block before
\* the call) and a trace of the symbol loop: the zigzag data, the position
\* the loop stopped at, why it stopped, the number of pairs decoded and
\* whether original_symbols was read outside its bounds
entropy_decode_block(block_size, input, input_size, output, stray, wide) ==
    LET total_size == block_size * block_size
        \* fill the rest with zeros, convert from zigzag order, return
        Finish(count, d, zigzag_data) ==
            [ret |-> decode_status(d.stop),
             output |-> unzigzag(zigzag_data, block_size),
             zigzag_data |-> zigzag_data, pos |-> d.pos, stop |-> d.stop,
             nsyms |-> d.nsyms, outside |-> d.outside, count |-> count]
        Fill(count, d) == Finish(count, d, ZeroRange(d.data, d.pos, total_size))
        \* the decoding tree, then the symbol loop on the calloc'ed zigzag_data
        Payload(t) ==
            IF t.ret < 0
            THEN [ret |-> -1, output |-> output, zigzag_data |-> <<>>, pos |-> 0,
                  stop |-> "header", nsyms |-> 0, outside |-> FALSE, count |-> 0]
            ELSE Fill(t.count,
                      decode_symbols([data |-> [k \in 1..total_size |-> 0], pos |-> 0,
                                      r |-> t.r, stop |-> "", nsyms |-> 0,
                                      outside |-> FALSE],
                                     build_decoding_tree(t.symbols, t.codes, t.count, wide).root,
                                     t.original_symbols, total_size, stray))
    IN  Payload(decode_symbol_table(bit_reader_init(input, input_size)))

\* ------------------------------------------------------------------------
\* Quantization
\* ------------------------------------------------------------------------
\* a double is kept as the exact fraction <<numerator, denominator>> in lowest
\* terms with a positive denominator; rounding errors of the floating-point
\* unit are not represented
RECURSIVE Gcd(_, _)
Gcd(a, b) == IF b = 0 THEN a ELSE Gcd(b, a % b)
Abs(x) == IF x < 0 THEN -x ELSE x
Frac(n, d) ==
    LET g == Gcd(Abs(n), Abs(d))
    IN  IF d < 0 THEN <<(-n) \div g, (-d) \div g>> ELSE <<n \div g, d \div g>>
FInt(n) == <<n, 1>>
FMul(a, b) == Frac(a[1] * b[1], a[2] * b[2])
FDiv(a, b) == Frac(a[1] * b[2], a[2] * b[1])
FSub(a, b) == Frac(a[1] * b[2] - b[1] * a[2], a[2] * b[2])
FLess(a, b) == a[1] * b[2] < b[1] * a[2]
\* fmin and fmax of math.h
fmin(a, b) == IF FLess(b, a) THEN b ELSE a
fmax(a, b) == IF FLess(a, b) THEN b ELSE a
\* (int) round(x): to the nearest integer, halves away from zero
round(x) ==
    IF x[1] >= 0 THEN (2 * x[1] + x[2]) \div (2 * x[2])
    ELSE -((2 * (-x[1]) + x[2]) \div (2 * x[2]))

\* largest m in lo..hi with m * m <= n
RECURSIVE isqrt(_, _, _)
isqrt(n, lo, hi) ==
    IF lo >= hi THEN lo
    ELSE LET mid == (lo + hi + 1) \div 2
         IN  IF mid * mid <= n THEN isqrt(n, mid, hi) ELSE isqrt(n, lo, mid - 1)

\* sqrt((double) k) to three decimals, for the k = i*i + j*j of a block
sqrt(k) == Frac(isqrt(k * 1000000, 0, 30000), 1000)

\* static const int std_jpeg_luma_quant[8][8]
std_jpeg_luma_quant ==
    << <<16, 11, 10, 16, 24, 40, 51, 61>>,
       <<12, 12, 14, 19, 26, 58, 60, 55>>,
       <<14, 13, 16, 24, 40, 57, 69, 56>>,
       <<14, 17, 22, 29, 51, 87, 80, 62>>,
       <<18, 22, 37, 56, 68, 109, 103, 77>>,
       <<24, 35, 55, 64, 81, 104, 113, 92>>,
       <<49, 64, 78, 87, 103, 121, 120, 101>>,
       <<72, 92, 95, 98, 112, 100, 103, 99>> >>

\* "if (value < 1.0) value = 1.0; if (value > 255.0) value = 255.0;"
clamp_quant(value) ==
    IF FLess(value, FInt(1)) THEN FInt(1)
    ELSE IF FLess(FInt(255), value) THEN FInt(255)
    ELSE value

\* double **generate_quant_matrix(int block_size, int quality); matrix[i + 1][j + 1]
\* is the C element matrix[i][j]
generate_quant_matrix(block_size, quality) ==
    LET scale_factor == IF quality < 50 THEN Frac(5000, quality * 100)
                        ELSE Frac(200 - 2 * quality, 100)
    IN  [i \in 1..block_size |-> [j \in 1..block_size |->
            IF block_size = 8
            THEN clamp_quant(FMul(FInt(std_jpeg_luma_quant[i][j]), scale_factor))
            ELSE clamp_quant(FMul(FMul(FSub(sqrt((i - 1) * (i - 1) + (j - 1) * (j - 1)),
                                            FInt(-1)),
                                       scale_factor),
                                  FInt(8)))]]

\* double **generate_dequant_matrix(double **quant_matrix, int block_size)
generate_dequant_matrix(quant_matrix, block_size) ==
    [i \in 1..block_size |-> [j \in 1..block_size |-> FDiv(FInt(1), quant_matrix[i][j])]]

\* QuantContext *quant_init(int block_size, int quality, int adaptive)
quant_init(block_size, quality, adaptive) ==
    LET q == IF quality < 1 THEN 1 ELSE IF quality > 100 THEN 100 ELSE quality
        Make(quant_matrix) ==
            [block_size     |-> block_size,
             quality        |-> q,
             adaptive       |-> adaptive,
             quant_matrix   |-> quant_matrix,
             dequant_matrix |-> generate_dequant_matrix(quant_matrix, block_size)]
    IN  Make(generate_quant_matrix(block_size, q))

\* the scaling factor adjust_matrix_for_block derives from the variance
block_scale(variance, is_quantize) ==
    LET norm_variance == fmin(FInt(1), fmax(Frac(1, 10), FDiv(variance, FInt(1000))))
    IN  IF is_quantize /= 0
        THEN FSub(FInt(2), norm_variance)
        ELSE FDiv(FInt(1), FSub(FInt(2), norm_variance))

\* variant: the DC entry is scaled like every other entry
adjust_matrix_for_block_dc(ctx, variance, is_quantize) ==
    LET source == IF is_quantize /= 0 THEN ctx.quant_matrix ELSE ctx.dequant_matrix
        Fill(scale) ==
            [i \in 1..ctx.block_size |-> [j \in 1..ctx.block_size |->
                IF is_quantize /= 0 /\ FLess(FMul(source[i][j], scale), FInt(1))
                THEN FInt(1)
                ELSE FMul(source[i][j], scale)]]
    IN  Fill(block_scale(variance, is_quantize))

\* double **adjust_matrix_for_block(QuantContext *ctx, double variance, int is_quantize):
\* the freshly allocated matrix; ctx is only read
adjust_matrix_for_block(ctx, variance, is_quantize) ==
    LET source == IF is_quantize /= 0 THEN ctx.quant_matrix ELSE ctx.dequant_matrix
        Fill(scale) ==
            [i \in 1..ctx.block_size |-> [j \in 1..ctx.block_size |->
                IF i = 1 /\ j = 1 THEN source[i][j]
                ELSE IF is_quantize /= 0 /\ FLess(FMul(source[i][j], scale), FInt(1))
                THEN FInt(1)
                ELSE FMul(source[i][j], scale)]]
    IN  Fill(block_scale(variance, is_quantize))

\* void quantize(ctx, dct_coeffs, quant_coeffs, block_variance): the integers
\* stored in quant_coeffs and the matrix used
quantize(ctx, dct_coeffs, block_variance) ==
    LET Apply(matrix) ==
            [quant_coeffs |-> [i \in 1..ctx.block_size |-> [j \in 1..ctx.block_size |->
                                  round(FDiv(dct_coeffs[i][j], matrix[i][j]))]],
             matrix |-> matrix]
    IN  Apply(IF ctx.adaptive /= 0
              THEN adjust_matrix_for_block(ctx, block_variance, 1)
              ELSE ctx.quant_matrix)

\* void dequantize(ctx, quant_coeffs, dct_coeffs, block_variance): the doubles
\* stored in dct_coeffs and the matrix used
dequantize(ctx, quant_coeffs, block_variance) ==
    LET Apply(matrix) ==
            [dct_coeffs |-> [i \in 1..ctx.block_size |-> [j \in 1..ctx.block_size |->
                                FMul(FInt(quant_coeffs[i][j]),
                                     IF ctx.adaptive /= 0
                                     THEN FDiv(FInt(1), matrix[i][j])
                                     ELSE matrix[i][j])]],
             matrix |-> matrix]
    IN  Apply(IF ctx.adaptive /= 0
              THEN adjust_matrix_for_block(ctx, block_variance, 0)
              ELSE ctx.dequant_matrix)

\* ------------------------------------------------------------------------
\* Discrete cosine transform
\* ------------------------------------------------------------------------
\* For a block size N the doubles of the transform are kept exactly, as the
\* sum  c[1]*cos(0) + c[2]*cos(pi/2N) + ... + c[N]*cos((N-1)pi/2N)  with
\* fractions c[k]; for N a power of two this representation is unique.
\* Rounding errors of the floating-point unit are not represented.
FAdd(a, b) == Frac(a[1] * b[2] + b[1] * a[2], a[2] * b[2])
\* an array whose elements have been computed and stored
Stored(array) == SubSeq(array, 1, Len(array))
CZero(N) == Stored([k \in 1..N |-> FInt(0)])

\* acc + coef * cos(m*pi/2N) for any integer m >= 0, using cos(2pi - x) =
\* cos(x), cos(pi - x) = -cos(x) and cos(pi/2) = 0
CAddCos(acc, N, m, coef) ==
    LET m1 == m % (4 * N)
        m2 == IF m1 > 2 * N THEN 4 * N - m1 ELSE m1
    IN  IF m2 = N THEN acc
        ELSE IF m2 < N THEN [acc EXCEPT ![m2 + 1] = FAdd(@, coef)]
        ELSE [acc EXCEPT ![2 * N - m2 + 1] = FAdd(@, FSub(FInt(0), coef))]

CCos(N, m, coef) == CAddCos(CZero(N), N, m, coef)
CReal(N, x) == CCos(N, 0, x)
CAdd(a, b) == Stored([k \in 1..Len(a) |-> FAdd(a[k], b[k])])

\* a * b, from cos(x)cos(y) = (cos(x + y) + cos(x - y)) / 2 on every pair of
\* non-zero terms
RECURSIVE CMulTerms(_, _, _, _, _, _)
CMulTerms(acc, pairs, p, a, b, N) ==
    IF p > Len(pairs) THEN acc
    ELSE LET k == pairs[p][1]
             l == pairs[p][2]
             half == FMul(FMul(a[k + 1], b[l + 1]), Frac(1, 2))
             nxt == CAddCos(CAddCos(acc, N, k + l, half), N, Abs(k - l), half)
         IN  IF Len(nxt) = N   \* always true
             THEN CMulTerms(nxt, pairs, p + 1, a, b, N)
             ELSE nxt

CMul(a, b, N) ==
    LET NonZero(pr) == a[pr[1] + 1][1] /= 0 /\ b[pr[2] + 1][1] /= 0
    IN  CMulTerms(CZero(N),
                  SelectSeq([p \in 1..(N * N) |-> <<(p - 1) \div N, (p - 1) % N>>], NonZero),
                  1, a, b, N)

\* N is the square of an integer
IsSquare(N) == isqrt(N, 0, N) * isqrt(N, 0, N) = N

\* alpha of dct_init: 1.0 / sqrt(block_size) for row 0 and
\* sqrt(2.0 / block_size) for the other rows, with sqrt(2)/2 = cos(pi/4)
dct_alpha(i, N) ==
    IF i = 0
    THEN IF IsSquare(N) THEN CReal(N, Frac(1, isqrt(N, 0, N)))
         ELSE CCos(N, N \div 2, Frac(2, isqrt(2 * N, 0, 2 * N)))
    ELSE IF IsSquare(N) THEN CCos(N, N \div 2, Frac(2, isqrt(N, 0, N)))
         ELSE CReal(N, Frac(2, isqrt(2 * N, 0, 2 * N)))

\* DCTContext *dct_init(int block_size) for a power of two; dct_matrix[i + 1][j + 1]
\* is the C element dct_matrix[i][j] = alpha * cos(PI * (2j + 1) * i / (2.0 * block_size))
dct_init(block_size) ==
    LET Make(dct_matrix) ==
            [block_size     |-> block_size,
             dct_matrix     |-> dct_matrix,
             transposed_dct |-> Stored([i \in 1..block_size |->
                                    Stored([j \in 1..block_size |-> dct_matrix[j][i]])])]
    IN  Make(Stored([i \in 1..block_size |-> Stored([j \in 1..block_size |->
                 CMul(dct_alpha(i - 1, block_size),
                      CCos(block_size, (2 * (j - 1) + 1) * (i - 1), FInt(1)),
                      block_size)])]))

\* "for (k = 0; k < size; k++) acc += a[i][k] * b[k][j];" from k on
RECURSIVE dct_dot(_, _, _, _, _, _, _)
dct_dot(acc, a, b, i, j, k, size) ==
    IF k > size THEN acc
    ELSE LET nxt == CAdd(acc, CMul(a[i][k], b[k][j], size))
         IN  IF Len(nxt) = size   \* always true
             THEN dct_dot(nxt, a, b, i, j, k + 1, size)
             ELSE nxt

\* one of the two passes of dct_forward / dct_inverse: the product a * b
dct_pass(a, b, size) ==
    Stored([i \in 1..size |->
               Stored([j \in 1..size |-> dct_dot(CZero(size), a, b, i, j, 1, size)])])

\* variant: the second pass multiplies by the transposed matrix again
dct_forward_transposed(ctx, input) ==
    LET Columns(temp) == dct_pass(ctx.transposed_dct, temp, ctx.block_size)
    IN  Columns(dct_pass(input, ctx.transposed_dct, ctx.block_size))

\* void dct_forward(ctx, input, output): temp = input * DCT^T, output = DCT * temp
dct_forward(ctx, input) ==
    LET Columns(temp) == dct_pass(ctx.dct_matrix, temp, ctx.block_size)
    IN  Columns(dct_pass(input, ctx.transposed_dct, ctx.block_size))

\* void dct_inverse(ctx, input, output): temp = DCT^T * input, output = temp * DCT
dct_inverse(ctx, input) ==
    LET Rows(temp) == dct_pass(temp, ctx.dct_matrix, ctx.block_size)
    IN  Rows(dct_pass(ctx.transposed_dct, input, ctx.block_size))

\* ------------------------------------------------------------------------
\* Context construction
\* ------------------------------------------------------------------------
\* double **alloc_array(int rows, int cols): failed when a malloc returns NULL
\* and the process ends with EXIT_FAILURE, else the shape allocated. A
\* negative count converts to a size no malloc can serve; malloc(0) returns
\* NULL or a pointer, as the C library chooses (malloc0_null)
alloc_array(rows, cols, malloc0_null) ==
    IF rows < 0 \/ (rows > 0 /\ cols < 0) THEN [failed |-> TRUE]
    ELSE IF (rows = 0 \/ cols = 0) /\ malloc0_null THEN [failed |-> TRUE]
    ELSE [failed |-> FALSE, rows |-> rows, cols |-> cols]

\* what a call of dct_init(block_size) ends with: no test of block_size
dct_init_call(block_size, malloc0_null) ==
    IF alloc_array(block_size, block_size, malloc0_null).failed THEN [status |-> "exit"]
    ELSE [status |-> "context", block_size |-> block_size]

\* what a call of quant_init(block_size, quality, adaptive) ends with
quant_init_call(block_size, quality, adaptive, malloc0_null) ==
    IF alloc_array(block_size, block_size, malloc0_null).failed THEN [status |-> "exit"]
    ELSE [status     |-> "context",
          block_size |-> block_size,
          quality    |-> IF quality < 1 THEN 1 ELSE IF quality > 100 THEN 100 ELSE quality,
          adaptive   |-> adaptive]

\* EntropyContext *entropy_init(int block_size, int use_arithmetic)
entropy_init(block_size, use_arithmetic) ==
    [status |-> "context", block_size |-> block_size, huffman_codes |-> NULL, symbols_count |-> 0,
     use_arithmetic |-> use_arithmetic]

\* ------------------------------------------------------------------------
\* State
\* ------------------------------------------------------------------------
VARIABLES
    writer,     \* BitWriter fields and the caller's buffer
    wlive,      \* the BitWriter has not been freed yet
    reader,     \* BitReader fields
    rlive,      \* a BitReader has been initialised
    written,    \* bits accepted by the writer so far, in order
    readBits,   \* bits returned by the reader so far, in order
    bitCalls,   \* number of write calls made on the writer
    bytesUsed,  \* value returned by bit_writer_free (-1 before)
    lastOp,     \* name of the last operation performed
    lastRet,    \* its return value
    lastDone,   \* bits accepted by the last write call
    zN,         \* block_size of the block being scanned
    zBlock,     \* the N x N input block, zBlock[row + 1][col + 1]
    zSeq,       \* output of zigzag_scan
    zOut,       \* block rebuilt by the decoder's inverse placement
    zPhase,     \* "input", "scanned" or "placed"
    rSeq,       \* sequence handed to run_length_encode
    rSyms,      \* the RLE symbols it produced
    rOut,       \* the sequence rebuilt from the symbols
    rPhase,     \* "input", "encoded" or "expanded"
    hSymbols,   \* symbols array handed to build_huffman_codes
    hFreqs,     \* frequencies array
    hCodes,     \* the code table returned
    hPhase,     \* "input" or "built"
    cN,         \* ctx->block_size of the block codec
    cBlock,     \* block handed to entropy_encode_block
    cCap,       \* *output_size on entry: capacity of the output buffer
    stream,     \* byte buffer holding the encoded stream
    streamLen,  \* bytes of the stream (*output_size after encoding)
    encRet,     \* value returned by entropy_encode_block
    encFailed,  \* a bit write was refused while encoding
    decSize,    \* input_size handed to entropy_decode_block
    decRet,     \* value returned by entropy_decode_block
    decOut,     \* the caller's output block
    decTrace,   \* how the decoder's symbol loop went
    cPhase,     \* "input", "stream", "encoded" or "decoded"
    qCtx,       \* the QuantContext returned by quant_init
    qVariance,  \* block_variance handed to quantize / dequantize
    qDct,       \* dct_coeffs handed to quantize
    qLevels,    \* quant_coeffs handed to dequantize
    qQuantOut,  \* quant_coeffs written by quantize
    qDequantOut,\* dct_coeffs written by dequantize
    qMatrix,    \* the matrix the last call worked with
    qPhase,     \* "ready", "quantized" or "dequantized"
    dCtx,       \* the DCTContext returned by dct_init
    dIn,        \* sample block handed to dct_forward
    dCoef,      \* coefficients written by dct_forward
    dOut,       \* block written by dct_inverse
    dPhase,     \* "ready", "transformed" or "inverted"
    iFn,        \* the init function called
    iSize,      \* block_size handed to it
    iNull0,     \* malloc(0) returns NULL in this C library
    iResult,    \* status "none", "exit" or "context" with the context's fields
    iPhase,     \* "call" or "returned"
    sHeap,      \* the arrays and context structs in memory, by address
    sBlocks,    \* per block operation in progress: its arguments and locals
    sExpect,    \* per block operation: the output of the same call running alone
    sInitial,   \* the three contexts as the init functions left them
    mImg,       \* the Image handed to image_get_cb / image_get_cr
    mX,         \* x handed to the getter
    mY,         \* y handed to the getter
    mCb,        \* value image_get_cb returned
    mCr,        \* value image_get_cr returned
    mPhase,     \* "ready" or "read"
    yData,      \* zigzag_data of the block being encoded
    yRle,       \* rle_symbols after step 2
    yMap,       \* original_symbols, symbol_indices, frequencies, unique_count after step 3
    yCodes,     \* huffman_codes after step 4
    yStream,    \* the bytes written and their number
    yTable,     \* what decode_symbol_table read back from the stream
    yAssigned,  \* the codes build_decoding_tree assigned, in the order assigned
    yPhase,     \* "input", "encoded" or "tabled"
    fRun,       \* run_length of the RLE symbol
    fValue,     \* value of the RLE symbol
    fOriginal,  \* original_symbols entry the encoder builds
    fOutRun,    \* run the decoder extracts
    fOutValue,  \* value the decoder extracts
    fPhase,     \* "input", "folded" or "unfolded"
    pQueue,     \* the HuffmanPQ
    pBefore,    \* the HuffmanPQ before the last call
    pNode,      \* node pushed or returned by the last call
    pCalls,     \* number of pq_push and pq_pop calls made
    pPhase,     \* "init", "pushed" or "popped"
    tLengths,   \* code length of each symbol index, as in the symbol table
    tRoot,      \* root of the tree build_decoding_tree returns
    tAssigned,  \* the codes assigned, in the order assigned
    tPhase,     \* "table" or "built"
    nCtx,       \* the DCTContext both implementations are given
    nIn,        \* the input block
    nFn,        \* "dct_forward" or "dct_inverse"
    nLib,       \* output of the library function, <<>> before the call
    nMain,      \* output of the function of main.c, <<>> before the call
    lN,         \* block_size of the context
    lReader,    \* the BitReader on the input
    lTable,     \* original_symbols read from the header
    lRoot,      \* root of the decoding tree
    lNode,      \* node the walk stands at
    lData,      \* zigzag_data
    lPos,       \* zigzag_pos
    lTrace,     \* iterations started, bits read by the walks, how the loop ended
    lRet,       \* value returned
    lPhase,     \* position in entropy_decode_block
    aSrc,       \* the image image_apply_subsampling is called on
    aMode,      \* the mode asked for
    aImg,       \* the image after the call
    aRet,       \* value returned
    aPhase      \* "ready" or "returned"

bitVars == <<writer, wlive, reader, rlive, written, readBits, bitCalls, bytesUsed,
             lastOp, lastRet, lastDone>>

zigVars == <<zN, zBlock, zSeq, zOut, zPhase>>

rleVars == <<rSeq, rSyms, rOut, rPhase>>

huffVars == <<hSymbols, hFreqs, hCodes, hPhase>>

codecVars == <<cN, cBlock, cCap, stream, streamLen, encRet, encFailed,
               decSize, decRet, decOut, decTrace, cPhase>>

quantVars == <<qCtx, qVariance, qDct, qLevels, qQuantOut, qDequantOut, qMatrix, qPhase>>

\* the variables of the specifications that follow the block codec
dctVars == <<dCtx, dIn, dCoef, dOut, dPhase>>
initVars == <<iFn, iSize, iNull0, iResult, iPhase>>
sharedVars == <<sHeap, sBlocks, sExpect, sInitial>>
imageVars == <<mImg, mX, mY, mCb, mCr, mPhase>>
symVars == <<yData, yRle, yMap, yCodes, yStream, yTable, yAssigned, yPhase>>
\* the variables of the specifications that follow the symbol table one
foldVars == <<fRun, fValue, fOriginal, fOutRun, fOutValue, fPhase>>
pqVars == <<pQueue, pBefore, pNode, pCalls, pPhase>>
treeVars == <<tLengths, tRoot, tAssigned, tPhase>>
mainVars == <<nCtx, nIn, nFn, nLib, nMain>>
loopVars == <<lN, lReader, lTable, lRoot, lNode, lData, lPos, lTrace, lRet, lPhase>>
subVars == <<aSrc, aMode, aImg, aRet, aPhase>>
lastVars == <<foldVars, pqVars, treeVars, mainVars, loopVars, subVars>>
laterVars == <<sharedVars, imageVars, symVars, lastVars>>
restVars == <<quantVars, dctVars, initVars, laterVars>>

vars == <<bitVars, zigVars, rleVars, huffVars, codecVars, restVars>>

\* variables a specification does not use keep these values
IdleBits ==
    /\ writer = [buffer |-> <<>>, capacity |-> 0, byte_pos |-> 0, bit_pos |-> 0]
    /\ wlive = FALSE
    /\ reader = [buffer |-> <<>>, capacity |-> 0, byte_pos |-> 0, bit_pos |-> 0]
    /\ rlive = FALSE
    /\ written = <<>>
    /\ readBits = <<>>
    /\ bitCalls = 0
    /\ bytesUsed = -1
    /\ lastOp = "none"
    /\ lastRet = 0
    /\ lastDone = 0

IdleZig ==
    /\ zN = 0
    /\ zBlock = <<>>
    /\ zSeq = <<>>
    /\ zOut = <<>>
    /\ zPhase = "idle"

IdleRle ==
    /\ rSeq = <<>>
    /\ rSyms = <<>>
    /\ rOut = <<>>
    /\ rPhase = "idle"

IdleHuff ==
    /\ hSymbols = <<>>
    /\ hFreqs = <<>>
    /\ hCodes = EmptyCodes
    /\ hPhase = "idle"

NoTrace == [stop |-> "", pos |-> 0, nsyms |-> 0, outside |-> FALSE,
            zigzag_data |-> <<>>, crashed |-> FALSE]

IdleCodec ==
    /\ cN = 0
    /\ cBlock = <<>>
    /\ cCap = 0
    /\ stream = <<>>
    /\ streamLen = 0
    /\ encRet = 0
    /\ encFailed = FALSE
    /\ decSize = 0
    /\ decRet = 0
    /\ decOut = <<>>
    /\ decTrace = NoTrace
    /\ cPhase = "idle"

IdleQuant ==
    /\ qCtx = <<>>
    /\ qVariance = <<>>
    /\ qDct = <<>>
    /\ qLevels = <<>>
    /\ qQuantOut = <<>>
    /\ qDequantOut = <<>>
    /\ qMatrix = <<>>
    /\ qPhase = "idle"

IdleDct ==
    /\ dCtx = <<>>
    /\ dIn = <<>>
    /\ dCoef = <<>>
    /\ dOut = <<>>
    /\ dPhase = "idle"

IdleInit ==
    /\ iFn = ""
    /\ iSize = 0
    /\ iNull0 = FALSE
    /\ iResult = [status |-> "none"]
    /\ iPhase = "idle"

IdleShared ==
    /\ sHeap = <<>>
    /\ sBlocks = <<>>
    /\ sExpect = <<>>
    /\ sInitial = <<>>

IdleImage ==
    /\ mImg = <<>>
    /\ mX = 0
    /\ mY = 0
    /\ mCb = -1
    /\ mCr = -1
    /\ mPhase = "idle"

IdleSym ==
    /\ yData = <<>>
    /\ yRle = <<>>
    /\ yMap = <<>>
    /\ yCodes = EmptyCodes
    /\ yStream = <<>>
    /\ yTable = <<>>
    /\ yAssigned = <<>>
    /\ yPhase = "idle"

IdleFold ==
    /\ fRun = 0
    /\ fValue = 0
    /\ fOriginal = -1
    /\ fOutRun = -1
    /\ fOutValue = 0
    /\ fPhase = "idle"

IdlePq ==
    /\ pQueue = [nodes |-> <<>>, capacity |-> 0, size |-> 0]
    /\ pBefore = [nodes |-> <<>>, capacity |-> 0, size |-> 0]
    /\ pNode = <<>>
    /\ pCalls = 0
    /\ pPhase = "idle"

IdleTree ==
    /\ tLengths = <<>>
    /\ tRoot = <<>>
    /\ tAssigned = <<>>
    /\ tPhase = "idle"

IdleMain ==
    /\ nCtx = <<>>
    /\ nIn = <<>>
    /\ nFn = ""
    /\ nLib = <<>>
    /\ nMain = <<>>

IdleLoop ==
    /\ lN = 0
    /\ lReader = [buffer |-> <<>>, capacity |-> 0, byte_pos |-> 0, bit_pos |-> 0]
    /\ lTable = <<>>
    /\ lRoot = <<>>
    /\ lNode = <<>>
    /\ lData = <<>>
    /\ lPos = 0
    /\ lTrace = [iterations |-> 0, bits |-> 0, stop |-> ""]
    /\ lRet = 0
    /\ lPhase = "idle"

IdleSub ==
    /\ aSrc = <<>>
    /\ aMode = ""
    /\ aImg = <<>>
    /\ aRet = 0
    /\ aPhase = "idle"

IdleLast == IdleFold /\ IdlePq /\ IdleTree /\ IdleMain /\ IdleLoop /\ IdleSub

IdleLater == IdleShared /\ IdleImage /\ IdleSym /\ IdleLast

IdleRest == IdleQuant /\ IdleDct /\ IdleInit /\ IdleLater

\* no specification before the quantization one is active
IdleCodecAndBefore == IdleBits /\ IdleZig /\ IdleRle /\ IdleHuff /\ IdleCodec

exceptBits == <<zigVars, rleVars, huffVars, codecVars, restVars>>
exceptZig == <<bitVars, rleVars, huffVars, codecVars, restVars>>
exceptRle == <<bitVars, zigVars, huffVars, codecVars, restVars>>
exceptHuff == <<bitVars, zigVars, rleVars, codecVars, restVars>>
exceptCodec == <<bitVars, zigVars, rleVars, huffVars, restVars>>
codecAndBefore == <<bitVars, zigVars, rleVars, huffVars, codecVars>>
exceptQuant == <<codecAndBefore, dctVars, initVars, laterVars>>
exceptDct == <<codecAndBefore, quantVars, initVars, laterVars>>
exceptInit == <<codecAndBefore, quantVars, dctVars, laterVars>>
beforeShared == <<codecAndBefore, quantVars, dctVars, initVars>>
exceptShared == <<beforeShared, imageVars, symVars, lastVars>>
exceptImage == <<beforeShared, sharedVars, symVars, lastVars>>
exceptSym == <<beforeShared, sharedVars, imageVars, lastVars>>
beforeLast == <<beforeShared, sharedVars, imageVars, symVars>>
exceptFold == <<beforeLast, pqVars, treeVars, mainVars, loopVars, subVars>>
exceptPq == <<beforeLast, foldVars, treeVars, mainVars, loopVars, subVars>>
exceptTree == <<beforeLast, foldVars, pqVars, mainVars, loopVars, subVars>>
exceptMain == <<beforeLast, foldVars, pqVars, treeVars, loopVars, subVars>>
exceptLoop == <<beforeLast, foldVars, pqVars, treeVars, mainVars, subVars>>
exceptSub == <<beforeLast, foldVars, pqVars, treeVars, mainVars, loopVars>>
IdleBeforeShared == IdleCodecAndBefore /\ IdleQuant /\ IdleDct /\ IdleInit
IdleBeforeLast == IdleBeforeShared /\ IdleShared /\ IdleImage /\ IdleSym
IdleExceptFold == IdleBeforeLast /\ IdlePq /\ IdleTree /\ IdleMain /\ IdleLoop /\ IdleSub
IdleExceptPq == IdleBeforeLast /\ IdleFold /\ IdleTree /\ IdleMain /\ IdleLoop /\ IdleSub
IdleExceptTree == IdleBeforeLast /\ IdleFold /\ IdlePq /\ IdleMain /\ IdleLoop /\ IdleSub
IdleExceptMain == IdleBeforeLast /\ IdleFold /\ IdlePq /\ IdleTree /\ IdleLoop /\ IdleSub
IdleExceptLoop == IdleBeforeLast /\ IdleFold /\ IdlePq /\ IdleTree /\ IdleMain /\ IdleSub
IdleExceptSub == IdleBeforeLast /\ IdleFold /\ IdlePq /\ IdleTree /\ IdleMain /\ IdleLoop

NoReader == [buffer |-> <<>>, capacity |-> 0, byte_pos |-> 0, bit_pos |-> 0]

\* ------------------------------------------------------------------------
\* Bit stream specification
\* ------------------------------------------------------------------------
InitBits ==
    /\ \E cap \in 0..MaxCap : \E g \in GarbageBytes :
           writer = bit_writer_init([i \in 1..(cap + Slack) |-> g], cap)
    /\ wlive = TRUE
    /\ reader = NoReader
    /\ rlive = FALSE
    /\ written = <<>>
    /\ readBits = <<>>
    /\ bitCalls = 0
    /\ bytesUsed = -1
    /\ lastOp = "bit_writer_init"
    /\ lastRet = 0
    /\ lastDone = 0
    /\ IdleZig /\ IdleRle /\ IdleHuff /\ IdleCodec /\ IdleRest

WriteBit ==
    /\ wlive
    /\ bitCalls < MaxWrites
    /\ \E bit \in {0, 1} :
         LET r == bit_writer_write_bit(writer, bit)
         IN  /\ writer' = r.w
             /\ written' = IF r.ret = 0 THEN Append(written, bit) ELSE written
             /\ lastRet' = r.ret
             /\ lastDone' = IF r.ret = 0 THEN 1 ELSE 0
    /\ bitCalls' = bitCalls + 1
    /\ lastOp' = "bit_writer_write_bit"
    /\ UNCHANGED <<wlive, reader, rlive, readBits, bytesUsed>>
    /\ UNCHANGED exceptBits

WriteBits ==
    /\ wlive
    /\ bitCalls < MaxWrites
    /\ bitCalls' = bitCalls + 1
    /\ \E bits \in BitStrings : \E length \in {0, Len(bits)} :
         LET r == bit_writer_write_bits(writer, bits, length)
         IN  /\ writer' = r.w
             /\ written' = written \o [i \in 1..r.done |-> IF bits[i] = "1" THEN 1 ELSE 0]
             /\ lastRet' = r.ret
             /\ lastDone' = r.done
    /\ lastOp' = "bit_writer_write_bits"
    /\ UNCHANGED <<wlive, reader, rlive, readBits, bytesUsed>>
    /\ UNCHANGED exceptBits

WriterFree ==
    /\ wlive
    /\ wlive' = FALSE
    /\ bytesUsed' = bit_writer_free(writer)
    /\ lastRet' = bit_writer_free(writer)
    /\ lastOp' = "bit_writer_free"
    /\ UNCHANGED <<writer, reader, rlive, written, readBits, bitCalls, lastDone>>
    /\ UNCHANGED exceptBits

ReaderInit ==
    /\ ~wlive
    /\ ~rlive
    /\ \E cap \in {bytesUsed, writer.capacity} :
           reader' = bit_reader_init(writer.buffer, cap)
    /\ rlive' = TRUE
    /\ lastOp' = "bit_reader_init"
    /\ lastRet' = 0
    /\ UNCHANGED <<writer, wlive, written, readBits, bitCalls, bytesUsed, lastDone>>
    /\ UNCHANGED exceptBits

ReadBit ==
    /\ rlive
    /\ LET r == bit_reader_read_bit(reader)
       IN  /\ reader' = r.r
           /\ readBits' = IF r.ret = 0 THEN Append(readBits, r.bit) ELSE readBits
           /\ lastRet' = r.ret
    /\ lastOp' = "bit_reader_read_bit"
    /\ UNCHANGED <<writer, wlive, rlive, written, bitCalls, bytesUsed, lastDone>>
    /\ UNCHANGED exceptBits

NextBits == WriteBit \/ WriteBits \/ WriterFree \/ ReaderInit \/ ReadBit

SpecBits == InitBits /\ [][NextBits]_vars

\* bit i (0-based) of the stream as stored in a byte buffer, MSB first
StoredBit(buffer, i) == BitOf(buffer[(i \div 8) + 1], 7 - (i % 8))

\* C5: bits are packed MSB-first. Bit i of the written sequence sits at bit
\* (7 - i mod 8) of byte floor(i/8), every unwritten bit inside the capacity
\* is 0, bit_writer_free returns ceil(k/8), reading the buffer back returns
\* the written bits in order, and 10101010 01010101 11110000 gives the bytes
\* 0xAA 0x55 0xF0.
C5_MsbFirstPacking ==
    /\ \A i \in 0..(Len(written) - 1) : StoredBit(writer.buffer, i) = written[i + 1]
    /\ \A i \in Len(written)..(8 * writer.capacity - 1) : StoredBit(writer.buffer, i) = 0
    /\ (~wlive) => bytesUsed = (Len(written) + 7) \div 8
    /\ \A i \in 1..Min(Len(readBits), Len(written)) : readBits[i] = written[i]
    /\ (rlive /\ Len(readBits) < Len(written)) => bit_reader_read_bit(reader).ret = 0
    /\ (written = Pattern24) => SubSeq(writer.buffer, 1, 3) = <<170, 85, 240>>

\* the 24-bit pattern was written, the writer freed and all 24 bits read back
C5_Witness ==
    /\ written = Pattern24
    /\ bytesUsed = 3
    /\ readBits = Pattern24

\* C9: a write at full capacity returns -1 and changes neither buffer nor
\* cursor; bit_writer_write_bits fails exactly at the first bit that does not
\* fit and keeps the bits written before it; no byte at index >= capacity is
\* ever written and the capacity never changes.
C9_OverflowRefused ==
    [][ /\ (lastOp' = "bit_writer_write_bit" /\ writer.byte_pos >= writer.capacity)
             => (writer' = writer /\ lastRet' = -1 /\ written' = written)
        /\ (lastOp' = "bit_writer_write_bits" /\ lastRet' = -1)
             => /\ Len(written') = 8 * writer.capacity
                /\ SubSeq(written', 1, Len(written)) = written
                /\ \A i \in 0..(Len(written') - 1) :
                       StoredBit(writer'.buffer, i) = written'[i + 1]
        /\ (lastOp' \in {"bit_writer_write_bit", "bit_writer_write_bits"} /\ lastRet' = 0)
             => Len(written') <= 8 * writer.capacity
        /\ writer'.capacity = writer.capacity
        /\ \A i \in (writer.capacity + 1)..Len(writer.buffer) :
               writer'.buffer[i] = writer.buffer[i]
        /\ Len(writer'.buffer) = Len(writer.buffer)
      ]_vars

\* a bit_writer_write_bits call ran into the end of the buffer after it had
\* written some of its bits, and a later single-bit write was refused
C9_Witness ==
    /\ lastOp = "bit_writer_write_bit"
    /\ lastRet = -1
    /\ writer.capacity >= 1
    /\ writer.byte_pos = writer.capacity
    /\ Len(written) = 8 * writer.capacity
    /\ written[Len(written)] = 1

\* ------------------------------------------------------------------------
\* Zigzag specification
\* ------------------------------------------------------------------------
ZigSizes == (1..MaxZigN) \cup {8, 16}

\* N x N block whose cell (row, col) holds first + row * N + col
RowMajorBlock(n, first) ==
    [r \in 1..n |-> [c \in 1..n |-> first + (r - 1) * n + (c - 1)]]

\* N x N block that is zero except for value v in cell k (row-major, 0-based)
OneCellBlock(n, k, v) ==
    [r \in 1..n |-> [c \in 1..n |-> IF (r - 1) * n + (c - 1) = k THEN v ELSE 0]]

\* input blocks: all-distinct, all-zero (k = n*n hits no cell) and one-cell blocks
ZigBlocks(n) ==
    {RowMajorBlock(n, 0), RowMajorBlock(n, 1)}
        \cup {OneCellBlock(n, k, v) : k \in 0..(n * n), v \in {-3, 7}}

InitZig ==
    /\ zN \in ZigSizes
    /\ zBlock \in ZigBlocks(zN)
    /\ zSeq = <<>>
    /\ zOut = <<>>
    /\ zPhase = "input"
    /\ IdleBits /\ IdleRle /\ IdleHuff /\ IdleCodec /\ IdleRest

ZigzagScan ==
    /\ zPhase = "input"
    /\ zSeq' = zigzag_scan(zBlock, zN)
    /\ zPhase' = "scanned"
    /\ UNCHANGED <<zN, zBlock, zOut>>
    /\ UNCHANGED exceptZig

ZigzagPlace ==
    /\ zPhase = "scanned"
    /\ zOut' = unzigzag(zSeq, zN)
    /\ zPhase' = "placed"
    /\ UNCHANGED <<zN, zBlock, zSeq>>
    /\ UNCHANGED exceptZig

NextZig == ZigzagScan \/ ZigzagPlace

SpecZig == InitZig /\ [][NextZig]_vars

\* C4: for every block size the pattern is a permutation of 0..N*N-1 written
\* inside its allocation, and placing the scanned sequence back with the
\* decoder's rule reproduces the block in every cell.
C4_ZigzagRoundTrip ==
    (zPhase /= "idle") =>
        LET g == generate_zigzag_pattern(zN)
        IN  /\ ~g.oob
            /\ Len(g.pattern) = zN * zN
            /\ {g.pattern[i] : i \in 1..(zN * zN)} = 0..(zN * zN - 1)
            /\ (zPhase = "placed") => zOut = zBlock

\* an all-distinct 16 x 16 block (generated pattern) went through scan and placement
C4_Witness ==
    /\ zPhase = "placed"
    /\ zN = 16
    /\ zBlock = RowMajorBlock(16, 1)
    /\ zOut = zBlock
    /\ zSeq /= [i \in 1..256 |-> i]

\* C10: the 4 x 4 block filled row-major with 0..15 scans to
\* 0,1,5,6,2,4,7,12,3,8,11,13,9,10,14,15.
C10_Scan4x4 ==
    (zPhase \in {"scanned", "placed"} /\ zN = 4 /\ zBlock = RowMajorBlock(4, 0))
        => zSeq = <<0, 1, 5, 6, 2, 4, 7, 12, 3, 8, 11, 13, 9, 10, 14, 15>>

\* the row-major 4 x 4 block has been scanned
C10_Witness ==
    /\ zPhase = "scanned"
    /\ zN = 4
    /\ zBlock = RowMajorBlock(4, 0)
    /\ Len(zSeq) = 16

\* ------------------------------------------------------------------------
\* Run-length specification
\* ------------------------------------------------------------------------
RleValues == {0, 1, -2}

\* all sequences over RleValues of length 0..MaxRleLen
RleInputs == UNION {[1..n -> RleValues] : n \in 0..MaxRleLen}

\* the 16 zigzag coefficients 100,0,0,50,0,0,0,0,25,0,...,0
RleExample ==
    [i \in 1..16 |-> IF i = 1 THEN 100 ELSE IF i = 4 THEN 50 ELSE IF i = 9 THEN 25 ELSE 0]

InitRle ==
    /\ rSeq \in RleInputs \cup {RleExample}
    /\ rSyms = <<>>
    /\ rOut = <<>>
    /\ rPhase = "input"
    /\ IdleBits /\ IdleZig /\ IdleHuff /\ IdleCodec /\ IdleRest

RunLengthEncode ==
    /\ rPhase = "input"
    /\ rSyms' = run_length_encode(rSeq, Len(rSeq))
    /\ rPhase' = "encoded"
    /\ UNCHANGED <<rSeq, rOut>>
    /\ UNCHANGED exceptRle

RunLengthExpand ==
    /\ rPhase = "encoded"
    /\ rOut' = rle_expand(rSyms, Len(rSeq))
    /\ rPhase' = "expanded"
    /\ UNCHANGED <<rSeq, rSyms>>
    /\ UNCHANGED exceptRle

NextRle == RunLengthEncode \/ RunLengthExpand

SpecRle == InitRle /\ [][NextRle]_vars

\* C3: expanding the symbols of run_length_encode(seq) with the decoder's
\* rule gives back seq, for every sequence.
C3_RleRoundTrip ==
    (rPhase = "expanded") => rOut = rSeq

\* a sequence with a leading zero, an inner zero run and trailing zeros was
\* encoded to three symbols, the last one the end-of-block pair, and expanded
C3_Witness ==
    /\ rPhase = "expanded"
    /\ rSeq = <<0, 1, 0, -2, 0>>
    /\ rSyms = << [run_length |-> 1, value |-> 1],
                  [run_length |-> 1, value |-> -2],
                  [run_length |-> 0, value |-> 0] >>
    /\ rOut = rSeq

\* positions of the non-zero elements of the sequence handed to the coder
NonZeroAt == {i \in 1..Len(rSeq) : rSeq[i] /= 0}

\* the j-th non-zero position, counted from 1
NthNonZero(j) == CHOOSE p \in NonZeroAt : Cardinality({q \in NonZeroAt : q < p}) = j - 1

\* the non-zero position before p, 0 when there is none
PrevNonZero(p) ==
    IF \E q \in NonZeroAt : q < p
    THEN CHOOSE q \in NonZeroAt : q < p /\ \A z \in NonZeroAt : z < p => z <= q
    ELSE 0

\* C11: run_length_encode emits one (run, value) symbol per non-zero element,
\* in order, run being the number of zeros since the previous non-zero element
\* or the start, followed by one (0,0) symbol exactly when the sequence ends
\* with a zero; 100,0,0,50,0,0,0,0,25,0,.. gives (0,100),(2,50),(4,25),(0,0).
C11_RleSymbols ==
    (rPhase /= "input" /\ rPhase /= "idle") =>
        LET k == Cardinality(NonZeroAt)
            trailing == Len(rSeq) > 0 /\ rSeq[Len(rSeq)] = 0
        IN  /\ Len(rSyms) = k + (IF trailing THEN 1 ELSE 0)
            /\ \A j \in 1..k :
                  rSyms[j] = [run_length |-> NthNonZero(j) - PrevNonZero(NthNonZero(j)) - 1,
                              value      |-> rSeq[NthNonZero(j)]]
            /\ trailing => rSyms[k + 1] = [run_length |-> 0, value |-> 0]
            /\ rSeq = RleExample =>
                  rSyms = << [run_length |-> 0, value |-> 100],
                             [run_length |-> 2, value |-> 50],
                             [run_length |-> 4, value |-> 25],
                             [run_length |-> 0, value |-> 0] >>

\* the 16-element example was encoded to four symbols
C11_Witness ==
    /\ rPhase = "encoded"
    /\ rSeq = RleExample
    /\ Len(rSyms) = 4
    /\ rSyms[3] = [run_length |-> 4, value |-> 25]
    /\ rSyms[4] = [run_length |-> 0, value |-> 0]

\* ------------------------------------------------------------------------
\* Huffman specification
\* ------------------------------------------------------------------------
\* symbol arrays of count distinct table indices: 0,1,2,.. (as the block
\* encoder passes them), the same reversed, and the top of the table downwards
SymbolArrays(count) ==
    { [i \in 1..count |-> i - 1],
      [i \in 1..count |-> count - i],
      [i \in 1..count |-> CodeTableSize - i] }

\* frequencies handed to build_huffman_codes: 1..MaxFreq and 2^31
FreqValues == {U32(f) : f \in 1..MaxFreq} \cup {<<32768, 0>>}

InitHuff ==
    /\ \E count \in 1..MaxSyms :
          /\ hSymbols \in SymbolArrays(count)
          /\ hFreqs \in [1..count -> FreqValues]
    /\ hCodes = EmptyCodes
    /\ hPhase = "input"
    /\ IdleBits /\ IdleZig /\ IdleRle /\ IdleCodec /\ IdleRest

BuildHuffmanCodes ==
    /\ hPhase = "input"
    /\ hCodes' = build_huffman_codes(hSymbols, hFreqs, Len(hSymbols))
    /\ hPhase' = "built"
    /\ UNCHANGED <<hSymbols, hFreqs>>
    /\ UNCHANGED exceptHuff

NextHuff == BuildHuffmanCodes

SpecHuff == InitHuff /\ [][NextHuff]_vars

IsPrefix(a, b) == Len(a) <= Len(b) /\ SubSeq(b, 1, Len(a)) = a

RECURSIVE SumOver(_, _)
SumOver(f, S) ==
    IF S = {} THEN 0
    ELSE LET x == CHOOSE y \in S : TRUE IN f[x] + SumOver(f, S \ {x})

C12_FrequencyMonotone ==
    (hPhase = "built") =>
        \A i, j \in 1..Len(hSymbols) :
            u32_less(hFreqs[j], hFreqs[i])
                => CodeLength(hCodes, hSymbols[i]) <= CodeLength(hCodes, hSymbols[j])

\* the same for frequencies whose sum fits in an unsigned
C12_MonotoneWithoutWrap ==
    (hPhase = "built" /\ \A i \in 1..Len(hSymbols) : hFreqs[i][1] = 0)
        => C12_FrequencyMonotone

\* ------------------------------------------------------------------------
\* Block codec specification
\* ------------------------------------------------------------------------
\* an output buffer large enough for every block explored
BigCap == 40 + 4 * MaxCoef

\* capacities passed in *output_size
OutCaps == {0, 2, 12, BigCap}

\* 4 x 4 blocks: sparse blocks with values at the ends of the 16-bit
\* sign-fold range, and the row of the RLE example 100,0,0,50,0,0,0,0,25
CodecBlocks4 ==
    {OneCellBlock(4, k, v) : k \in {0, 6, 15}, v \in {-32767, 32767}}
        \cup { << <<100, 0, 0, 0>>, <<0, 0, 0, 0>>, <<50, 0, 0, 0>>, <<0, 0, 25, 0>> >> }

CodecBlocks(n) ==
    IF n = 2 THEN {<< <<a, b>>, <<c, d>> >> : a, b, c, d \in (-1)..MaxCoef}
    ELSE CodecBlocks4

\* hand-made streams: declared symbol count, table entries <<run, folded
\* value, code length>> and payload bits
HandMadeStreams ==
    { \* one symbol with a 1-bit code: a 1 bit finds no right child
      [n |-> 2, count |-> 1, entries |-> << <<0, 6, 1>> >>,
       payload |-> <<0, 0, 1, 0>>],
      \* codes 0, 10, 11 (11 is end-of-block): the byte ends inside a code
      [n |-> 4, count |-> 3, entries |-> << <<0, 2, 1>>, <<1, 5, 2>>, <<0, 0, 2>> >>,
       payload |-> <<0, 0, 0, 1, 0, 0, 0, 1,  0, 0, 1, 1>>],
      \* codes 00 and 01 only: the first 1 bit finds no child at the root
      [n |-> 2, count |-> 2, entries |-> << <<0, 2, 2>>, <<0, 4, 2>> >>,
       payload |-> <<0, 0, 0, 1, 1, 0, 0, 0>>],
      \* a table that declares no symbol at all
      [n |-> 2, count |-> 0, entries |-> <<>>, payload |-> <<1, 0, 1, 0>>] }

RECURSIVE hand_made_entries(_, _, _)
hand_made_entries(ws, entries, i) ==
    IF i > Len(entries) THEN ws
    ELSE LET w1 == write_int(ws, entries[i][1] * 65536 + entries[i][2], 32, 0)
             w2 == write_int(w1, entries[i][3], 8, 0)
         IN  IF w1.failed \in BOOLEAN /\ w2.failed \in BOOLEAN
             THEN hand_made_entries(w2, entries, i + 1)
             ELSE w2

\* the bytes of a hand-made stream, laid out as encode_symbol_table lays them out
HandMadeBytes(hm) ==
    LET size == (16 + 40 * Len(hm.entries) + Len(hm.payload) + 7) \div 8
        w0 == [w |-> bit_writer_init([i \in 1..size |-> 0], size), failed |-> FALSE]
        bits == [i \in 1..Len(hm.payload) |-> IF hm.payload[i] = 1 THEN "1" ELSE "0"]
    IN  bit_writer_write_bits(
            hand_made_entries(write_int(w0, hm.count, 16, 0), hm.entries, 1).w,
            bits, Len(bits)).w.buffer

\* the caller's output block before entropy_decode_block is called
PreOut(n) == [r \in 1..n |-> [c \in 1..n |-> 99]]

\* what an out-of-bounds read of original_symbols may find: <<run, folded value>>
StrayPairs == {<<0, 0>>, <<0, 2>>, <<1, 3>>}

InitCodec ==
    /\ \/ /\ cN \in {2, 4}
          /\ cBlock \in CodecBlocks(cN)
          /\ cCap \in OutCaps
          /\ \E g \in GarbageBytes : stream = [i \in 1..(cCap + Slack) |-> g]
          /\ streamLen = 0
          /\ cPhase = "input"
       \/ /\ \E hm \in HandMadeStreams :
                /\ cN = hm.n
                /\ stream = HandMadeBytes(hm)
          /\ streamLen = Len(stream)
          /\ cBlock = <<>>
          /\ cCap = 0
          /\ cPhase = "stream"
    /\ encRet = 0
    /\ encFailed = FALSE
    /\ decSize = 0
    /\ decRet = 0
    /\ decOut = PreOut(cN)
    /\ decTrace = NoTrace
    /\ IdleBits /\ IdleZig /\ IdleRle /\ IdleHuff /\ IdleRest

EncodeBlock ==
    /\ cPhase = "input"
    /\ LET Store(e) ==
               /\ stream' = e.output
               /\ streamLen' = e.output_size
               /\ encRet' = e.ret
               /\ encFailed' = e.failed
       IN  Store(entropy_encode_block(cN, cBlock, stream, cCap))
    /\ cPhase' = "encoded"
    /\ UNCHANGED <<cN, cBlock, cCap, decSize, decRet, decOut, decTrace>>
    /\ UNCHANGED exceptCodec

\* entropy_decode_block on the first input_size bytes of the stream. When
\* the decoder reads outside original_symbols the behaviour is undefined:
\* the read finds any pair, or the call does not return; so is a shift by
\* 32 or more in build_decoding_tree
DecodeBlock ==
    /\ cPhase \in {"encoded", "stream"}
    /\ LET Return(d) ==
               /\ decRet' = d.ret
               /\ decOut' = d.output
               /\ decTrace' = [stop |-> d.stop, pos |-> d.pos, nsyms |-> d.nsyms,
                               outside |-> d.outside, zigzag_data |-> d.zigzag_data,
                               crashed |-> FALSE]
           Outcome(input_size, wide, d0) ==
               IF ~d0.outside
               THEN Return(d0)
               ELSE \/ \E stray \in StrayPairs :
                         Return(entropy_decode_block(cN, stream, input_size,
                                                     decOut, stray, wide))
                    \/ /\ decRet' = decRet
                       /\ decOut' = decOut
                       /\ decTrace' = [NoTrace EXCEPT !.outside = TRUE, !.crashed = TRUE]
       IN  \E input_size \in 0..streamLen, wide \in WideShifts :
               /\ decSize' = input_size
               /\ Outcome(input_size, wide,
                          entropy_decode_block(cN, stream, input_size, decOut,
                                               <<0, 0>>, wide))
    /\ cPhase' = "decoded"
    /\ UNCHANGED <<cN, cBlock, cCap, stream, streamLen, encRet, encFailed>>
    /\ UNCHANGED exceptCodec

NextCodec == EncodeBlock \/ DecodeBlock

SpecCodec == InitCodec /\ [][NextCodec]_vars

\* C1: for a block whose values lie inside the 16-bit sign-fold range and an
\* output buffer large enough, decoding all the bytes entropy_encode_block
\* produced returns 0 and yields the input block in every cell.
C1_LosslessRoundTrip ==
    (/\ cPhase = "decoded"
     /\ cBlock /= <<>>
     /\ ~encFailed
     /\ decSize = streamLen)
        => (~decTrace.crashed /\ decRet = 0 /\ decOut = cBlock)

\* C6: whenever a bit write was refused for lack of room while encoding,
\* entropy_encode_block returns a non-zero status.
C6_OverflowReported ==
    (cPhase \in {"encoded", "decoded"} /\ encFailed) => encRet /= 0

\* bits the header needs: the 16-bit count, then 40 bits for every entry
\* the count declares
HeaderBitsNeeded ==
    IF decSize < 2 THEN 16 ELSE 16 + 40 * (stream[1] * 256 + stream[2])

\* C7: when the input ends before the 16-bit symbol count or before the 40
\* bits of every declared header entry, entropy_decode_block returns a
\* non-zero status and leaves every cell of the output block as it was.
C7_TruncatedHeaderFails ==
    (cPhase = "decoded" /\ 8 * decSize < HeaderBitsNeeded)
        => (decRet /= 0 /\ decOut = PreOut(cN))

\* the input ends inside the second of three declared header entries
C7_Witness ==
    /\ cPhase = "decoded"
    /\ decSize >= 2
    /\ stream[1] * 256 + stream[2] = 3
    /\ 8 * decSize > 16 + 40
    /\ 8 * decSize < 16 + 80
    /\ decRet = -1
    /\ decOut = PreOut(cN)

\* C8: when the header parses and the symbol loop ends on a reader underflow
\* or on a missing child of the decoding tree, entropy_decode_block returns
\* 0, every zigzag position from the stop on is 0, the positions before it
\* hold what the complete stream decodes to there, and the output block is
\* the inverse zigzag of that data.
C8_CorruptPayloadBestEffort ==
    (/\ cPhase = "decoded"
     /\ ~decTrace.crashed
     /\ decTrace.stop \in {"underflow", "dead"})
        => /\ decRet = 0
           /\ decTrace.pos <= cN * cN
           /\ \A i \in 1..(cN * cN) :
                 i > decTrace.pos => decTrace.zigzag_data[i] = 0
           /\ decOut = unzigzag(decTrace.zigzag_data, cN)
           /\ SubSeq(decTrace.zigzag_data, 1, decTrace.pos)
                 = SubSeq(entropy_decode_block(cN, stream, streamLen, PreOut(cN),
                                               <<0, 0>>, "masked").zigzag_data,
                          1, decTrace.pos)

\* the last payload byte is cut off inside a 2-bit code after seven
\* coefficients were decoded
C8_Witness ==
    /\ cPhase = "decoded"
    /\ cBlock = <<>>
    /\ cN = 4
    /\ decSize = streamLen - 1
    /\ decTrace.stop = "underflow"
    /\ decTrace.pos = 7
    /\ decRet = 0
    /\ decOut[1][1] = 1
    /\ decOut[4][4] = 0

\* ------------------------------------------------------------------------
\* Quantization specification
\* ------------------------------------------------------------------------
QuantQualities == {10, 50, 100}
QuantVariances == {0, 50, 550, 1000, 2500}

\* 8 x 8 integer blocks: one cell set (DC, the first AC cell, the last cell),
\* or every cell set
LevelBlocks ==
    {[i \in 1..8 |-> [j \in 1..8 |-> IF <<i, j>> = cell THEN v ELSE 0]] :
        cell \in {<<1, 1>>, <<1, 2>>, <<8, 8>>}, v \in (-MaxLevel)..MaxLevel}
    \cup {[i \in 1..8 |-> [j \in 1..8 |-> v]] : v \in 1..MaxLevel}

InitQuant ==
    /\ \E quality \in QuantQualities, adaptive \in {0, 1} :
          qCtx = quant_init(8, quality, adaptive)
    /\ qVariance \in {FInt(v) : v \in QuantVariances}
    /\ qLevels \in LevelBlocks
    /\ qDct = [i \in 1..8 |-> [j \in 1..8 |-> Frac(15 * qLevels[i][j], 2)]]
    /\ qQuantOut = <<>>
    /\ qDequantOut = <<>>
    /\ qMatrix = <<>>
    /\ qPhase = "ready"
    /\ IdleCodecAndBefore /\ IdleDct /\ IdleInit /\ IdleLater

Quantize ==
    /\ qPhase = "ready"
    /\ LET Store(q) ==
               /\ qQuantOut' = q.quant_coeffs
               /\ qMatrix' = q.matrix
       IN  Store(quantize(qCtx, qDct, qVariance))
    /\ qPhase' = "quantized"
    /\ UNCHANGED <<qCtx, qVariance, qDct, qLevels, qDequantOut>>
    /\ UNCHANGED exceptQuant

Dequantize ==
    /\ qPhase = "ready"
    /\ LET Store(d) ==
               /\ qDequantOut' = d.dct_coeffs
               /\ qMatrix' = d.matrix
       IN  Store(dequantize(qCtx, qLevels, qVariance))
    /\ qPhase' = "dequantized"
    /\ UNCHANGED <<qCtx, qVariance, qDct, qLevels, qQuantOut>>
    /\ UNCHANGED exceptQuant

\* dequantize on the integers quantize has stored, as test_basic_quantization
\* calls the two
DequantizeQuantized ==
    /\ qPhase = "quantized"
    /\ LET Store(d) ==
               /\ qDequantOut' = d.dct_coeffs
               /\ qMatrix' = d.matrix
       IN  Store(dequantize(qCtx, qQuantOut, qVariance))
    /\ qPhase' = "restored"
    /\ UNCHANGED <<qCtx, qVariance, qDct, qLevels, qQuantOut>>
    /\ UNCHANGED exceptQuant

NextQuant == Quantize \/ Dequantize \/ DequantizeQuantized

SpecQuant == InitQuant /\ [][NextQuant]_vars

\* C13: with a variance of at least 1000 (scale factor 1), dequantize gives
\* the same coefficients in adaptive and in non-adaptive mode for the same
\* context matrices and integer block.
C13_DequantizePathsAgree ==
    (qPhase = "dequantized" /\ ~FLess(qVariance, FInt(1000)))
        => qDequantOut = dequantize([qCtx EXCEPT !.adaptive = 1 - qCtx.adaptive],
                                    qLevels, qVariance).dct_coeffs

\* the scale factor as the specification words it: 2 - clamp(variance / 1000,
\* 0.1, 1.0) for quantization, its reciprocal for dequantization
SpecScale ==
    LET n == IF FLess(qVariance, FInt(100)) THEN Frac(1, 10)
             ELSE IF FLess(FInt(1000), qVariance) THEN FInt(1)
             ELSE Frac(qVariance[1], 1000 * qVariance[2])
        s == FSub(FInt(2), n)
    IN  IF qPhase = "quantized" THEN s ELSE FDiv(FInt(1), s)

SampleBlock(N, f(_, _)) == Stored([i \in 1..N |-> Stored([j \in 1..N |-> CReal(N, FInt(f(i, j)))])])

\* sample blocks with values in -128..127: for 4 x 4 one cell at an end of the
\* range, constant blocks and a ramp; for 8 x 8 and 16 x 16 a ramp with a peak
DctBlocks(N) ==
    LET Ramp(i, j) == IF i = 2 /\ j = 3 THEN 127 ELSE 8 * (i + j) - 144
    IN  IF N = 4
        THEN {SampleBlock(4, LAMBDA i, j : IF 4 * (i - 1) + j = cell THEN v ELSE 0) :
                  cell \in 1..MaxDctCells, v \in {-128, -1, 1, 64, 127}}
             \cup {SampleBlock(4, LAMBDA i, j : v) : v \in {-128, 0, 127}}
             \cup {SampleBlock(4, Ramp)}
        ELSE IF N = 8
        THEN {SampleBlock(8, Ramp), SampleBlock(8, LAMBDA i, j : IF i = 8 /\ j = 8 THEN -128 ELSE 0)}
        ELSE {SampleBlock(N, Ramp)}

InitDct ==
    /\ \E N \in {4, 8, 16} :
          /\ dCtx = dct_init(N)
          /\ dIn \in DctBlocks(N)
    /\ dCoef = <<>>
    /\ dOut = <<>>
    /\ dPhase = "ready"
    /\ IdleCodecAndBefore /\ IdleQuant /\ IdleInit /\ IdleLater

DctForward ==
    /\ dPhase = "ready"
    /\ dCoef' = dct_forward(dCtx, dIn)
    /\ dPhase' = "transformed"
    /\ UNCHANGED <<dCtx, dIn, dOut>>
    /\ UNCHANGED exceptDct

DctInverse ==
    /\ dPhase = "transformed"
    /\ dOut' = dct_inverse(dCtx, dCoef)
    /\ dPhase' = "inverted"
    /\ UNCHANGED <<dCtx, dIn, dCoef>>
    /\ UNCHANGED exceptDct

NextDct == DctForward \/ DctInverse

SpecDct == InitDct /\ [][NextDct]_vars

\* a - b is a number of magnitude at most 1e-6
Within1e6(a, b) ==
    LET diff == [k \in 1..Len(a) |-> FSub(a[k], b[k])]
    IN  /\ \A k \in 2..Len(a) : diff[k][1] = 0
        /\ Abs(diff[1][1]) <= diff[1][2] \div 1000000

InitInit ==
    /\ iFn \in {"dct_init", "quant_init", "entropy_init"}
    /\ iSize \in (-MaxInitSize)..MaxInitSize
    /\ iNull0 \in BOOLEAN
    /\ iResult = [status |-> "none"]
    /\ iPhase = "call"
    /\ IdleCodecAndBefore /\ IdleQuant /\ IdleDct /\ IdleLater

DctInit ==
    /\ iPhase = "call" /\ iFn = "dct_init"
    /\ iResult' = dct_init_call(iSize, iNull0)
    /\ iPhase' = "returned"
    /\ UNCHANGED <<iFn, iSize, iNull0>>
    /\ UNCHANGED exceptInit

QuantInit ==
    /\ iPhase = "call" /\ iFn = "quant_init"
    /\ \E quality \in {0, 50, 101}, adaptive \in {0, 1} :
          iResult' = quant_init_call(iSize, quality, adaptive, iNull0)
    /\ iPhase' = "returned"
    /\ UNCHANGED <<iFn, iSize, iNull0>>
    /\ UNCHANGED exceptInit

EntropyInit ==
    /\ iPhase = "call" /\ iFn = "entropy_init"
    /\ \E use_arithmetic \in {0, 1} : iResult' = entropy_init(iSize, use_arithmetic)
    /\ iPhase' = "returned"
    /\ UNCHANGED <<iFn, iSize, iNull0>>
    /\ UNCHANGED exceptInit

NextInit == DctInit \/ QuantInit \/ EntropyInit

SpecInit == InitInit /\ [][NextInit]_vars

IsPowerOfTwo(n) == \E e \in 0..30 : n = Pow2(e)

\* C16: dct_init, quant_init and entropy_init given a block size that is not
\* a positive power of two do not return a context.
C16_BadSizeRejected ==
    (iPhase = "returned" /\ ~IsPowerOfTwo(iSize)) => iResult.status /= "context"

\* ------------------------------------------------------------------------
\* Shared contexts specification: two block operations in progress at once
\* ------------------------------------------------------------------------
\* Memory is a sequence of cells; a pointer is the index of a cell. A cell
\* holds a context struct, an array or a byte buffer with its size; a freed
\* cell holds <<>>.

\* alloc_array / malloc: an array no live pointer refers to
new_array(heap) == Len(heap) + 1

\* a write through pointer p
heap_store(heap, p, value) ==
    IF p > Len(heap) THEN Append(heap, value) ELSE [heap EXCEPT ![p] = value]

\* free_array / free
heap_free(heap, p) == [heap EXCEPT ![p] = <<>>]

\* the QuantContext *ctx as adjust_matrix_for_block reads it
quant_ctx_at(heap, p) ==
    [block_size     |-> heap[p].block_size,
     quality        |-> heap[p].quality,
     adaptive       |-> heap[p].adaptive,
     quant_matrix   |-> heap[heap[p].quant_matrix],
     dequant_matrix |-> heap[heap[p].dequant_matrix]]

\* variant: the adjusted matrix is written over the context's own matrix
quantize_matrix_in_place(heap, ctx) == heap[ctx].quant_matrix

\* where quantize's local matrix points: in adaptive mode to the array
\* adjust_matrix_for_block allocates, else to ctx->quant_matrix
quantize_matrix(heap, ctx) ==
    IF heap[ctx].adaptive /= 0 THEN new_array(heap) ELSE heap[ctx].quant_matrix

\* the same pointer in dequantize
dequantize_matrix(heap, ctx) ==
    IF heap[ctx].adaptive /= 0 THEN new_array(heap) ELSE heap[ctx].dequant_matrix

\* the block operations and the blocks in progress
BlockOps == {"dct_forward", "dct_inverse", "quantize", "dequantize",
             "entropy_encode_block", "entropy_decode_block"}
Blocks == {1, 2}
SharedSizes == {2, 4}

\* the input block of operation op for block t
SharedLevels(N, t) ==
    [i \in 1..N |-> [j \in 1..N |->
        IF i = 1 /\ j = 1 THEN 20 * t
        ELSE IF i = t /\ j = 2 THEN -t
        ELSE IF i = 2 /\ j = 1 THEN 1 ELSE 0]]

SharedInput(op, N, t) ==
    IF op \in {"dct_forward", "dct_inverse"}
    THEN Stored([i \in 1..N |-> Stored([j \in 1..N |-> CReal(N, FInt(SharedLevels(N, t)[i][j]))])])
    ELSE IF op = "quantize"
    THEN [i \in 1..N |-> [j \in 1..N |-> Frac(100 * SharedLevels(N, t)[i][j] + i, 3)]]
    ELSE IF op = "entropy_decode_block"
    THEN LET Bytes(e) == [buffer |-> e.output, size |-> e.output_size]
         IN  Bytes(entropy_encode_block(N, SharedLevels(N, 3 - t),
                                        [k \in 1..BigCap |-> 0], BigCap))
    ELSE SharedLevels(N, t)

\* the caller's output buffer before the call
SharedOutput(op, N) ==
    IF op = "entropy_encode_block" THEN [buffer |-> [k \in 1..BigCap |-> 0], size |-> BigCap]
    ELSE PreOut(N)

SharedVariance(t) == FInt(500 * t - 450)

\* what the call leaves in its output buffer when it runs alone
SoloOutput(op, N, quality, adaptive, t, input) ==
    LET Bytes(e) == [buffer |-> e.output, size |-> e.output_size]
    IN  CASE op = "dct_forward" -> dct_forward(dct_init(N), input)
          [] op = "dct_inverse" -> dct_inverse(dct_init(N), input)
          [] op = "quantize" ->
                quantize(quant_init(N, quality, adaptive), input,
                         SharedVariance(t)).quant_coeffs
          [] op = "dequantize" ->
                dequantize(quant_init(N, quality, adaptive), input,
                           SharedVariance(t)).dct_coeffs
          [] op = "entropy_encode_block" ->
                Bytes(entropy_encode_block(N, input, [k \in 1..BigCap |-> 0], BigCap))
          [] op = "entropy_decode_block" ->
                entropy_decode_block(N, input.buffer, input.size, PreOut(N), <<0, 0>>,
                                     "masked").output

\* memory after dct_init, quant_init and entropy_init, followed by the input
\* and output buffers of the two callers
SharedMemory(N, quality, adaptive, ops) ==
    LET Layout(d, q, input1, input2) ==
            << [block_size |-> N, dct_matrix |-> 2, transposed_dct |-> 3],
               d.dct_matrix,
               d.transposed_dct,
               [block_size |-> N, quality |-> q.quality, adaptive |-> q.adaptive,
                quant_matrix |-> 5, dequant_matrix |-> 6],
               q.quant_matrix,
               q.dequant_matrix,
               [block_size |-> N, huffman_codes |-> NULL, symbols_count |-> 0,
                use_arithmetic |-> 0],
               input1, SharedOutput(ops[1], N),
               input2, SharedOutput(ops[2], N) >>
    IN  Layout(dct_init(N), quant_init(N, quality, adaptive),
               SharedInput(ops[1], N, 1), SharedInput(ops[2], N, 2))

\* the arguments and locals of the call made for block t
SharedCall(op, t) ==
    [op       |-> op,
     pc       |-> "called",
     ctx      |-> IF op \in {"dct_forward", "dct_inverse"} THEN 1
                  ELSE IF op \in {"quantize", "dequantize"} THEN 4 ELSE 7,
     input    |-> 6 + 2 * t,
     output   |-> 7 + 2 * t,
     variance |-> SharedVariance(t),
     size     |-> 0,
     temp     |-> 0,
     ret      |-> 0]

InitShared ==
    /\ \E N \in SharedSizes, quality \in {50}, adaptive \in {0, 1},
          ops \in [Blocks -> BlockOps] :
          /\ sHeap = SharedMemory(N, quality, adaptive, ops)
          /\ sBlocks = [t \in Blocks |-> SharedCall(ops[t], t)]
          /\ sExpect = [t \in Blocks |->
                           SoloOutput(ops[t], N, quality, adaptive, t, sHeap[6 + 2 * t])]
          /\ sInitial = SubSeq(sHeap, 1, 7)
    /\ IdleBeforeShared /\ IdleImage /\ IdleSym /\ IdleLast

\* block t takes one step: memory and its own frame change
SharedStep(t, heap, frame) ==
    /\ sHeap' = heap
    /\ sBlocks' = [sBlocks EXCEPT ![t] = frame]
    /\ UNCHANGED <<sExpect, sInitial>>
    /\ UNCHANGED exceptShared

\* dct_forward, first loop nest: temp = input * DCT^T
DctForwardRows ==
    \E t \in Blocks :
        /\ sBlocks[t].op = "dct_forward" /\ sBlocks[t].pc = "called"
        /\ LET Do(f, size, temp) ==
                   SharedStep(t,
                       heap_store(sHeap, temp,
                           dct_pass(sHeap[f.input], sHeap[sHeap[f.ctx].transposed_dct], size)),
                       [f EXCEPT !.size = size, !.temp = temp, !.pc = "halfway"])
           IN  Do(sBlocks[t], sHeap[sBlocks[t].ctx].block_size, new_array(sHeap))

\* dct_forward, second loop nest: output = DCT * temp; free_array(temp)
DctForwardColumns ==
    \E t \in Blocks :
        /\ sBlocks[t].op = "dct_forward" /\ sBlocks[t].pc = "halfway"
        /\ LET Do(f) ==
                   SharedStep(t,
                       heap_free(
                           heap_store(sHeap, f.output,
                               dct_pass(sHeap[sHeap[f.ctx].dct_matrix], sHeap[f.temp], f.size)),
                           f.temp),
                       [f EXCEPT !.pc = "returned"])
           IN  Do(sBlocks[t])

\* dct_inverse, first loop nest: temp = DCT^T * input
DctInverseColumns ==
    \E t \in Blocks :
        /\ sBlocks[t].op = "dct_inverse" /\ sBlocks[t].pc = "called"
        /\ LET Do(f, size, temp) ==
                   SharedStep(t,
                       heap_store(sHeap, temp,
                           dct_pass(sHeap[sHeap[f.ctx].transposed_dct], sHeap[f.input], size)),
                       [f EXCEPT !.size = size, !.temp = temp, !.pc = "halfway"])
           IN  Do(sBlocks[t], sHeap[sBlocks[t].ctx].block_size, new_array(sHeap))

\* dct_inverse, second loop nest: output = temp * DCT; free_array(temp)
DctInverseRows ==
    \E t \in Blocks :
        /\ sBlocks[t].op = "dct_inverse" /\ sBlocks[t].pc = "halfway"
        /\ LET Do(f) ==
                   SharedStep(t,
                       heap_free(
                           heap_store(sHeap, f.output,
                               dct_pass(sHeap[f.temp], sHeap[sHeap[f.ctx].dct_matrix], f.size)),
                           f.temp),
                       [f EXCEPT !.pc = "returned"])
           IN  Do(sBlocks[t])

\* quantize, the choice of the matrix: a fresh adjusted copy in adaptive
\* mode, else the context's own quant_matrix
QuantizeMatrix ==
    \E t \in Blocks :
        /\ sBlocks[t].op = "quantize" /\ sBlocks[t].pc = "called"
        /\ LET Do(f, matrix) ==
                   IF sHeap[f.ctx].adaptive /= 0
                   THEN SharedStep(t,
                            heap_store(sHeap, matrix,
                                adjust_matrix_for_block(quant_ctx_at(sHeap, f.ctx),
                                                        f.variance, 1)),
                            [f EXCEPT !.temp = matrix, !.pc = "halfway"])
                   ELSE SharedStep(t, sHeap, [f EXCEPT !.temp = matrix, !.pc = "halfway"])
           IN  Do(sBlocks[t], quantize_matrix(sHeap, sBlocks[t].ctx))

\* quantize, the loop nest and the free_array of an adjusted matrix
QuantizeCoeffs ==
    \E t \in Blocks :
        /\ sBlocks[t].op = "quantize" /\ sBlocks[t].pc = "halfway"
        /\ LET Written(f) ==
                   heap_store(sHeap, f.output,
                       [i \in 1..sHeap[f.ctx].block_size |->
                           [j \in 1..sHeap[f.ctx].block_size |->
                               round(FDiv(sHeap[f.input][i][j], sHeap[f.temp][i][j]))]])
               Do(f) ==
                   SharedStep(t,
                       IF sHeap[f.ctx].adaptive /= 0
                       THEN heap_free(Written(f), f.temp)
                       ELSE Written(f),
                       [f EXCEPT !.pc = "returned"])
           IN  Do(sBlocks[t])

\* dequantize, the choice of the matrix
DequantizeMatrix ==
    \E t \in Blocks :
        /\ sBlocks[t].op = "dequantize" /\ sBlocks[t].pc = "called"
        /\ LET Do(f, matrix) ==
                   IF sHeap[f.ctx].adaptive /= 0
                   THEN SharedStep(t,
                            heap_store(sHeap, matrix,
                                adjust_matrix_for_block(quant_ctx_at(sHeap, f.ctx),
                                                        f.variance, 0)),
                            [f EXCEPT !.temp = matrix, !.pc = "halfway"])
                   ELSE SharedStep(t, sHeap, [f EXCEPT !.temp = matrix, !.pc = "halfway"])
           IN  Do(sBlocks[t], dequantize_matrix(sHeap, sBlocks[t].ctx))

\* dequantize, the loop nest and the free_array of an adjusted matrix
DequantizeCoeffs ==
    \E t \in Blocks :
        /\ sBlocks[t].op = "dequantize" /\ sBlocks[t].pc = "halfway"
        /\ LET Written(f) ==
                   heap_store(sHeap, f.output,
                       [i \in 1..sHeap[f.ctx].block_size |->
                           [j \in 1..sHeap[f.ctx].block_size |->
                               FMul(FInt(sHeap[f.input][i][j]),
                                    IF sHeap[f.ctx].adaptive /= 0
                                    THEN FDiv(FInt(1), sHeap[f.temp][i][j])
                                    ELSE sHeap[f.temp][i][j])]])
               Do(f) ==
                   SharedStep(t,
                       IF sHeap[f.ctx].adaptive /= 0
                       THEN heap_free(Written(f), f.temp)
                       ELSE Written(f),
                       [f EXCEPT !.pc = "returned"])
           IN  Do(sBlocks[t])

\* entropy_encode_block, step 1: block_size is read, zigzag_data is
\* malloc'ed and filled by zigzag_scan
EncodeScan ==
    \E t \in Blocks :
        /\ sBlocks[t].op = "entropy_encode_block" /\ sBlocks[t].pc = "called"
        /\ LET Do(f, block_size, zigzag_data) ==
                   SharedStep(t,
                       heap_store(sHeap, zigzag_data, zigzag_scan(sHeap[f.input], block_size)),
                       [f EXCEPT !.size = block_size, !.temp = zigzag_data, !.pc = "halfway"])
           IN  Do(sBlocks[t], sHeap[sBlocks[t].ctx].block_size, new_array(sHeap))

\* entropy_encode_block, steps 2 to 5 and the clean-up
EncodeWrite ==
    \E t \in Blocks :
        /\ sBlocks[t].op = "entropy_encode_block" /\ sBlocks[t].pc = "halfway"
        /\ LET Do(f, e) ==
                   SharedStep(t,
                       heap_free(
                           heap_store(sHeap, f.output,
                                      [buffer |-> e.output, size |-> e.output_size]),
                           f.temp),
                       [f EXCEPT !.ret = e.ret, !.pc = "returned"])
           IN  Do(sBlocks[t],
                  encode_zigzag_data(sHeap[sBlocks[t].temp],
                                     sBlocks[t].size * sBlocks[t].size,
                                     sHeap[sBlocks[t].output].buffer,
                                     sHeap[sBlocks[t].output].size))

\* entropy_decode_block up to the end of the symbol loop: the table, the
\* tree and the calloc'ed zigzag_data filled from the payload
DecodeSymbols ==
    \E t \in Blocks, wide \in WideShifts :
        /\ sBlocks[t].op = "entropy_decode_block" /\ sBlocks[t].pc = "called"
        /\ LET Do(f, block_size, zigzag_data, d) ==
                   /\ ~d.outside
                   /\ IF d.ret < 0
                      THEN SharedStep(t, sHeap,
                               [f EXCEPT !.size = block_size, !.ret = d.ret,
                                         !.pc = "returned"])
                      ELSE SharedStep(t,
                               heap_store(sHeap, zigzag_data, d.zigzag_data),
                               [f EXCEPT !.size = block_size, !.temp = zigzag_data,
                                         !.pc = "halfway"])
           IN  Do(sBlocks[t], sHeap[sBlocks[t].ctx].block_size, new_array(sHeap),
                  entropy_decode_block(sHeap[sBlocks[t].ctx].block_size,
                                       sHeap[sBlocks[t].input].buffer,
                                       sHeap[sBlocks[t].input].size,
                                       sHeap[sBlocks[t].output], <<0, 0>>, wide))

\* entropy_decode_block, the conversion from zigzag order and the clean-up
DecodePlace ==
    \E t \in Blocks :
        /\ sBlocks[t].op = "entropy_decode_block" /\ sBlocks[t].pc = "halfway"
        /\ LET Do(f) ==
                   SharedStep(t,
                       heap_free(heap_store(sHeap, f.output, unzigzag(sHeap[f.temp], f.size)),
                                 f.temp),
                       [f EXCEPT !.pc = "returned"])
           IN  Do(sBlocks[t])

NextShared ==
    \/ DctForwardRows \/ DctForwardColumns \/ DctInverseColumns \/ DctInverseRows
    \/ QuantizeMatrix \/ QuantizeCoeffs \/ DequantizeMatrix \/ DequantizeCoeffs
    \/ EncodeScan \/ EncodeWrite \/ DecodeSymbols \/ DecodePlace

SpecShared == InitShared /\ [][NextShared]_vars

\* C17: with two block operations interleaved on one DCTContext, QuantContext
\* and EntropyContext, the three contexts stay as the init functions left
\* them and every operation that has returned left in its output buffer what
\* the same call leaves when it runs alone.
C17_BlocksIndependent ==
    sBlocks /= <<>> =>
        /\ SubSeq(sHeap, 1, 7) = sInitial
        /\ \A t \in Blocks :
              sBlocks[t].pc = "returned" => sHeap[sBlocks[t].output] = sExpect[t]

\* an adaptive quantize allocated its matrix first and is halfway; a
\* dct_forward on the other block started after it and has returned with its
\* output written
C17_Witness ==
    /\ sBlocks /= <<>>
    /\ sBlocks[1].op = "quantize" /\ sBlocks[1].pc = "halfway"
    /\ sBlocks[2].op = "dct_forward" /\ sBlocks[2].pc = "returned"
    /\ sHeap[4].adaptive /= 0
    /\ sBlocks[1].temp < sBlocks[2].temp
    /\ sHeap[sBlocks[2].output] = sExpect[2]

\* ------------------------------------------------------------------------
\* Chroma sample access
\* ------------------------------------------------------------------------
\* the chroma plane dimensions image_apply_subsampling gives an image of
\* width x height: <<cb_width, cb_height>> (the Cr plane gets the same)
chroma_size(width, height, mode) ==
    IF mode = "SUBSAMPLE_444" THEN <<width, height>>
    ELSE IF mode = "SUBSAMPLE_422" THEN <<(width + 1) \div 2, height>>
    ELSE <<(width + 1) \div 2, (height + 1) \div 2>>

\* unsigned char image_get_cb(Image *img, int x, int y); cb_channel[k + 1] is
\* the C element cb_channel[k]
image_get_cb(img, x, y) ==
    IF img.format /= "FORMAT_YCBCR" \/ img.cb_channel = NULL
       \/ x < 0 \/ y < 0 \/ x >= img.cb_width \/ y >= img.cb_height
    THEN 128
    ELSE IF x < 0 \/ y < 0 \/ x >= img.width \/ y >= img.height THEN 128
    ELSE IF img.subsampling = "SUBSAMPLE_444" THEN img.cb_channel[y * img.width + x + 1]
    ELSE IF img.subsampling = "SUBSAMPLE_422"
    THEN img.cb_channel[y * img.cb_width + (x \div 2) + 1]
    ELSE img.cb_channel[(y \div 2) * img.cb_width + (x \div 2) + 1]

\* unsigned char image_get_cr(Image *img, int x, int y)
image_get_cr(img, x, y) ==
    IF img.format /= "FORMAT_YCBCR" \/ img.cr_channel = NULL THEN 128
    ELSE IF x < 0 \/ y < 0 \/ x >= img.width \/ y >= img.height THEN 128
    ELSE IF img.subsampling = "SUBSAMPLE_444" THEN img.cr_channel[y * img.cr_width + x + 1]
    ELSE IF img.subsampling = "SUBSAMPLE_422"
    THEN img.cr_channel[y * img.cr_width + (x \div 2) + 1]
    ELSE img.cr_channel[(y \div 2) * img.cr_width + (x \div 2) + 1]

\* a YCbCr image of width x height after image_apply_subsampling(img, mode);
\* the stored samples differ from one another and from 128
SubsampledImage(width, height, mode) ==
    LET Make(size) ==
            [width |-> width, height |-> height, format |-> "FORMAT_YCBCR",
             subsampling |-> mode,
             cb_width |-> size[1], cb_height |-> size[2],
             cr_width |-> size[1], cr_height |-> size[2],
             cb_channel |-> [k \in 1..(size[1] * size[2]) |-> 16 + k],
             cr_channel |-> [k \in 1..(size[1] * size[2]) |-> 192 + k]]
    IN  Make(chroma_size(width, height, mode))

\* ------------------------------------------------------------------------
\* Chroma sample access specification
\* ------------------------------------------------------------------------
SubsamplingModes == {"SUBSAMPLE_444", "SUBSAMPLE_422", "SUBSAMPLE_420"}

\* an RGB image as image_create leaves it: no chroma planes
RgbImage(width, height) ==
    [SubsampledImage(width, height, "SUBSAMPLE_444") EXCEPT
        !.format = "FORMAT_RGB", !.cb_channel = NULL, !.cr_channel = NULL]

InitImage ==
    /\ mImg \in {SubsampledImage(w, h, mode) :
                    w \in 1..MaxImageDim, h \in 1..MaxImageDim, mode \in SubsamplingModes}
                \cup {RgbImage(2, 2)}
    /\ mX = 0
    /\ mY = 0
    /\ mCb = -1
    /\ mCr = -1
    /\ mPhase = "ready"
    /\ IdleBeforeShared /\ IdleShared /\ IdleSym /\ IdleLast

ImageGetCb ==
    /\ mPhase = "ready"
    /\ \E x \in (-1)..mImg.width, y \in (-1)..mImg.height :
          /\ mX' = x
          /\ mY' = y
          /\ mCb' = image_get_cb(mImg, x, y)
    /\ mPhase' = "read"
    /\ UNCHANGED <<mImg, mCr>>
    /\ UNCHANGED exceptImage

ImageGetCr ==
    /\ mPhase = "ready"
    /\ \E x \in (-1)..mImg.width, y \in (-1)..mImg.height :
          /\ mX' = x
          /\ mY' = y
          /\ mCr' = image_get_cr(mImg, x, y)
    /\ mPhase' = "read"
    /\ UNCHANGED <<mImg, mCb>>
    /\ UNCHANGED exceptImage

NextImage == ImageGetCb \/ ImageGetCr

SpecImage == InitImage /\ [][NextImage]_vars

\* the stored sample covering pixel (x, y): index y*cw + x/2 for 4:2:2 and
\* (y/2)*cw + x/2 for 4:2:0, cw the chroma plane width
CoveringSample(channel, cw) ==
    IF mImg.subsampling = "SUBSAMPLE_422" THEN channel[mY * cw + (mX \div 2) + 1]
    ELSE channel[(mY \div 2) * cw + (mX \div 2) + 1]

\* C18: for a YCbCr image in 4:2:2 or 4:2:0 mode and every (x, y) inside the
\* image, image_get_cb and image_get_cr return the stored chroma sample that
\* covers the pixel.
C18_ChromaCoversPixel ==
    (/\ mPhase = "read"
     /\ mImg.format = "FORMAT_YCBCR"
     /\ mImg.subsampling \in {"SUBSAMPLE_422", "SUBSAMPLE_420"}
     /\ 0 <= mX /\ mX < mImg.width /\ 0 <= mY /\ mY < mImg.height)
        => /\ mCb /= -1 => mCb = CoveringSample(mImg.cb_channel, mImg.cb_width)
           /\ mCr /= -1 => mCr = CoveringSample(mImg.cr_channel, mImg.cr_width)

\* the part of C18 that image_get_cr meets on its own
C18_CrCoversPixel ==
    (/\ mPhase = "read"
     /\ mImg.format = "FORMAT_YCBCR"
     /\ mImg.subsampling \in {"SUBSAMPLE_422", "SUBSAMPLE_420"}
     /\ 0 <= mX /\ mX < mImg.width /\ 0 <= mY /\ mY < mImg.height
     /\ mCr /= -1)
        => mCr = CoveringSample(mImg.cr_channel, mImg.cr_width)

\* ------------------------------------------------------------------------
\* Symbol table specification: the encoder's mapping and codes, and the
\* table and codes the decoder derives from the stream
\* ------------------------------------------------------------------------
\* zigzag data of a 2 x 2 block
SymData == [1..4 -> (-1)..MaxCoef]

InitSym ==
    /\ yData \in SymData
    /\ yRle = <<>>
    /\ yMap = <<>>
    /\ yCodes = EmptyCodes
    /\ yStream = <<>>
    /\ yTable = <<>>
    /\ yAssigned = <<>>
    /\ yPhase = "input"
    /\ IdleBeforeShared /\ IdleShared /\ IdleImage /\ IdleLast

\* entropy_encode_block from step 2 on, into a buffer large enough
EncodeData ==
    /\ yPhase = "input"
    /\ LET Store(e) ==
               /\ yRle' = e.rle_symbols
               /\ yMap' = e.map
               /\ yCodes' = e.codes
               /\ yStream' = [buffer |-> e.output, size |-> e.output_size]
       IN  Store(encode_zigzag_data(yData, Len(yData), [k \in 1..BigCap |-> 0], BigCap))
    /\ yPhase' = "encoded"
    /\ UNCHANGED <<yData, yTable, yAssigned>>
    /\ UNCHANGED exceptSym

\* entropy_decode_block up to the decoding tree: decode_symbol_table, then
\* build_decoding_tree
DecodeTable ==
    /\ yPhase = "encoded"
    /\ LET Store(t, wide) ==
               /\ yTable' = [ret |-> t.ret, count |-> t.count,
                             original_symbols |-> t.original_symbols,
                             lengths |-> [k \in 1..t.count |-> CodeLength(t.codes, k - 1)]]
               /\ yAssigned' = build_decoding_tree(t.symbols, t.codes, t.count,
                                                    wide).assigned
       IN  \E wide \in WideShifts :
               Store(decode_symbol_table(bit_reader_init(yStream.buffer, yStream.size)),
                     wide)
    /\ yPhase' = "tabled"
    /\ UNCHANGED <<yData, yRle, yMap, yCodes, yStream>>
    /\ UNCHANGED exceptSym

NextSym == EncodeData \/ DecodeTable

SpecSym == InitSym /\ [][NextSym]_vars

\* the (capped run, sign-folded value) pair of RLE symbol i, as one number
PairOf(i) == original_symbol(yRle[i].run_length, yRle[i].value)

\* C19: after the mapping pass two RLE symbols have the same index exactly
\* when their (capped run, folded value) pairs are equal, indices count up
\* from 0 in order of first occurrence, frequencies[k] is the number of RLE
\* symbols with index k, and header entry k carries the pair mapped to k.
C19_MappingByFirstOccurrence ==
    yPhase \in {"encoded", "tabled"} =>
        LET n == Len(yRle)
            idx(i) == yMap.symbol_indices[i]
        IN  /\ \A i, j \in 1..n : (idx(i) = idx(j)) <=> (PairOf(i) = PairOf(j))
            /\ \A i \in 1..n :
                  (\A j \in 1..(i - 1) : PairOf(j) /= PairOf(i))
                      => idx(i) = Cardinality({PairOf(j) : j \in 1..(i - 1)})
            /\ \A k \in 0..(yMap.unique_count - 1) :
                  yMap.frequencies[k + 1] = Cardinality({i \in 1..n : idx(i) = k})
            /\ yPhase = "tabled" =>
                  \A i \in 1..n :
                      /\ idx(i) < yTable.count
                      /\ yTable.original_symbols[idx(i) + 1]
                             = <<PairOf(i) \div 65536, PairOf(i) % 65536>>

\* the length bits of code_value, most significant first, as '0' / '1'
CodeString(code_value, length) ==
    [b \in 1..length |-> IF u32_bit(code_value, length - b) = 1 THEN "1" ELSE "0"]

\* C20: for every index k with a non-zero code length, the bit string the
\* encoder writes for k (its path in the Huffman tree) is the code
\* build_decoding_tree assigns to k from the transmitted lengths.
C20_EncoderCodeIsCanonical ==
    yPhase = "tabled" =>
        \A k \in DOMAIN yCodes :
            CodeLength(yCodes, k) > 0 =>
                \E a \in 1..Len(yAssigned) :
                    /\ yAssigned[a].symbol = k
                    /\ CodeBits(yCodes, k)
                           = CodeString(yAssigned[a].code_value, yAssigned[a].length)

\* ------------------------------------------------------------------------
\* Further properties of the Huffman specification
\* ------------------------------------------------------------------------
\* C21: for a single-symbol alphabet build_huffman_codes assigns the symbol a
\* code of length 1.
C21_SingleSymbolOneBit ==
    (hPhase = "built" /\ Len(hSymbols) = 1) => CodeLength(hCodes, hSymbols[1]) = 1

\* ------------------------------------------------------------------------
\* Further properties of the block codec specification
\* ------------------------------------------------------------------------
\* C22: every index entropy_decode_block uses to read the symbol table lies
\* in [0, count): no node treated as a leaf carries the marker -1.
C22_TableIndexInBounds ==
    cPhase = "decoded" => ~decTrace.outside

\* ------------------------------------------------------------------------
\* Further properties of the zigzag specification
\* ------------------------------------------------------------------------
\* position (0-based) of cell (r, c) in the standard anti-diagonal traversal
\* of an N x N block: diagonals d = r + c in increasing order, even d by
\* decreasing row, odd d by increasing row
StandardRank(N, r, c) ==
    Cardinality({p \in (0..(N - 1)) \X (0..(N - 1)) :
                    \/ p[1] + p[2] < r + c
                    \/ /\ p[1] + p[2] = r + c
                       /\ IF (r + c) % 2 = 0 THEN p[1] > r ELSE p[1] < r})

\* C23: for every block size N, element k of zigzag_scan's output is the
\* block cell that comes k-th in the standard anti-diagonal traversal.
C23_ScanIsStandardTraversal ==
    zPhase \in {"scanned", "placed"} =>
        \A r, c \in 0..(zN - 1) :
            zSeq[StandardRank(zN, r, c) + 1] = zBlock[r + 1][c + 1]

\* the block sizes for which the scan is the standard traversal
C23_HoldsUpToSize2 ==
    (zPhase \in {"scanned", "placed"} /\ zN <= 2) =>
        \A r, c \in 0..(zN - 1) :
            zSeq[StandardRank(zN, r, c) + 1] = zBlock[r + 1][c + 1]

\* ------------------------------------------------------------------------
\* Sign folding of one RLE symbol: the body of the "gather unique symbols"
\* loop of entropy_encode_block and the leaf branch of entropy_decode_block
\* ------------------------------------------------------------------------
INT_MIN == (-2147483647) - 1

\* "(-value)" for an int: the negation of INT_MIN overflows, which the
\* language leaves undefined. A build that assumes no overflow takes the
\* negated value for positive (so not below 32768); a wrapping build
\* (-fwrapv) gets INT_MIN again, and ((INT_MIN << 1) | 1) is 1
encoded_values(value) ==
    IF value = INT_MIN THEN {65535, 1} ELSE {fold_value(value)}

\* "if (run > 255) run = 255; original_symbols[i] = (run << 16) | encoded_value"
original_symbols_entry(run_length, encoded_value) ==
    (IF run_length > RunCap THEN RunCap ELSE run_length) * 65536 + encoded_value

\* "int run = (original >> 16) & 0xFFFF"
symbol_run(original) == (original \div 65536) % 65536

\* "int encoded_value = original & 0xFFFF" and "Decode sign + magnitude"
symbol_value(original) == unfold_value(original % 65536)

\* values around every boundary of the folding, and the extremes of int
FoldValues ==
    ((-3)..3) \cup {32766, 32767, 32768, 32769, 65535, 65536, 2147483646, 2147483647}
              \cup {-32766, -32767, -32768, -32769, -65535, -65536, -2147483647, INT_MIN}

\* run lengths run_length_encode can produce, around the cap
FoldRuns == {0, 1, 2, 15, 16, 254, 255, 256, 257, 4095}

InitFold ==
    /\ fRun \in FoldRuns
    /\ fValue \in FoldValues
    /\ fOriginal = -1
    /\ fOutRun = -1
    /\ fOutValue = 0
    /\ fPhase = "input"
    /\ IdleExceptFold

\* entropy.c:577-596, one iteration for the symbol (fRun, fValue)
FoldSymbol ==
    /\ fPhase = "input"
    /\ \E encoded_value \in encoded_values(fValue) :
           fOriginal' = original_symbols_entry(fRun, encoded_value)
    /\ fPhase' = "folded"
    /\ UNCHANGED <<fRun, fValue, fOutRun, fOutValue, exceptFold>>

\* entropy.c:783-800, the leaf whose table entry is fOriginal
UnfoldSymbol ==
    /\ fPhase = "folded"
    /\ fOutRun' = symbol_run(fOriginal)
    /\ fOutValue' = symbol_value(fOriginal)
    /\ fPhase' = "unfolded"
    /\ UNCHANGED <<fRun, fValue, fOriginal, exceptFold>>

NextFold == FoldSymbol \/ UnfoldSymbol

SpecFold == InitFold /\ [][NextFold]_vars

\* the folded value and the capped run the encoder is to produce
FoldedAsStated(v) ==
    IF v = 0 THEN 0
    ELSE IF v > 0 THEN (IF v < 32768 THEN 2 * v ELSE 65534)
    ELSE IF v > -32768 THEN 2 * (0 - v) + 1 ELSE 65535

CappedRun(run) == IF run > 255 THEN 255 ELSE run

\* the value the decoder is to return
UnfoldedAsStated(v) ==
    IF v > 32767 THEN 32767 ELSE IF v < -32767 THEN -32767 ELSE v

\* C24: the encoder folds every value as stated with the run capped at 255,
\* and the decoder returns the capped run and the value, saturated to
\* magnitude 32767 with its sign.
C24_FoldUnfold ==
    /\ fPhase \in {"folded", "unfolded"} =>
           fOriginal = CappedRun(fRun) * 65536 + FoldedAsStated(fValue)
    /\ fPhase = "unfolded" =>
           /\ fOutRun = CappedRun(fRun)
           /\ fOutValue = UnfoldedAsStated(fValue)

\* the same for every value whose negation is an int
C24_HoldsAboveIntMin ==
    fValue /= INT_MIN =>
        /\ fPhase \in {"folded", "unfolded"} =>
               fOriginal = CappedRun(fRun) * 65536 + FoldedAsStated(fValue)
        /\ fPhase = "unfolded" =>
               /\ fOutRun = CappedRun(fRun)
               /\ fOutValue = UnfoldedAsStated(fValue)

\* ------------------------------------------------------------------------
\* The priority queue on its own: pq_init, then pq_push and pq_pop calls in
\* any order
\* ------------------------------------------------------------------------
\* largest capacity given to pq_init, largest frequency pushed, and the
\* number of calls followed
MaxPqCap == 2
MaxPqFreq == 2
MaxPqCalls == 6

\* frequencies pushed: small ones and 65536, which does not fit 16 bits
PqFreqs == {U32(f) : f \in 0..MaxPqFreq} \cup {<<1, 0>>}

InitPq ==
    /\ \E capacity \in 1..MaxPqCap : pQueue = pq_init(capacity)
    /\ pBefore = pQueue
    /\ pNode = NULL
    /\ pCalls = 0
    /\ pPhase = "init"
    /\ IdleExceptPq

\* pq_push(pq, node) with a node of its own symbol
PqPush ==
    /\ pPhase \in {"init", "pushed", "popped"}
    /\ pCalls < MaxPqCalls
    /\ \E frequency \in PqFreqs :
           LET node == create_huffman_node(pCalls, frequency)
           IN  /\ pQueue' = pq_push(pQueue, node)
               /\ pNode' = node
    /\ pBefore' = pQueue
    /\ pCalls' = pCalls + 1
    /\ pPhase' = "pushed"
    /\ UNCHANGED exceptPq

\* pq_pop(pq)
PqPop ==
    /\ pPhase \in {"init", "pushed", "popped"}
    /\ pCalls < MaxPqCalls
    /\ pQueue' = pq_pop(pQueue).pq
    /\ pNode' = pq_pop(pQueue).min
    /\ pBefore' = pQueue
    /\ pCalls' = pCalls + 1
    /\ pPhase' = "popped"
    /\ UNCHANGED exceptPq

NextPq == PqPush \/ PqPop

SpecPq == InitPq /\ [][NextPq]_vars

\* nodes[(i - 1) / 2]->frequency <= nodes[i]->frequency for 0 < i < size
MinHeap(pq) ==
    \A i \in 1..(pq.size - 1) :
        u32_leq(NodeFreq(pq.nodes[((i - 1) \div 2) + 1]), NodeFreq(pq.nodes[i + 1]))

Queued(pq) == {pq.nodes[i] : i \in 1..pq.size}

\* C26: after any sequence of pq_push and pq_pop calls on a queue created
\* with capacity >= 1 the node array is a binary min-heap on frequency and
\* size does not exceed capacity; pq_pop removes and returns a node of
\* minimum frequency among those queued, and on an empty queue returns NULL
\* and leaves the queue unchanged.
C26_MinHeapQueue ==
    pPhase \in {"init", "pushed", "popped"} =>
        /\ MinHeap(pQueue)
        /\ pQueue.size <= pQueue.capacity
        /\ pQueue.size = Len(pQueue.nodes)
        /\ (pPhase = "popped" /\ pBefore.size > 0) =>
               /\ pNode \in Queued(pBefore)
               /\ \A n \in Queued(pBefore) : u32_leq(NodeFreq(pNode), NodeFreq(n))
               /\ Queued(pQueue) = Queued(pBefore) \ {pNode}
               /\ pQueue.size = pBefore.size - 1
        /\ (pPhase = "popped" /\ pBefore.size = 0) =>
               /\ pNode = NULL
               /\ pQueue = pBefore

\* a pop from a grown queue of four nodes of different frequencies whose
\* last node had to sink below the root
C26_Witness ==
    /\ pPhase = "popped"
    /\ pBefore.size = 4
    /\ pBefore.capacity > MaxPqCap
    /\ pQueue.nodes[1] /= pBefore.nodes[4]
    /\ \E i, j \in 1..4 : u32_less(NodeFreq(pBefore.nodes[i]), NodeFreq(pBefore.nodes[j]))

\* ------------------------------------------------------------------------
\* build_decoding_tree on the code lengths of a symbol table
\* ------------------------------------------------------------------------
\* largest number of symbols and largest code length of the tables
\* enumerated in full
MaxTreeSyms == 5
MaxTreeLen == 4
\* sizes of the one-sided tables: lengths 1, 2, .., n - 1, n - 1, the code of
\* frequencies that grow like powers of two
DeepTreeSizes == {17, 32, 33, 34}

\* the length vectors of full binary trees: Kraft sum exactly 1
RECURSIVE KraftSum(_, _, _)
KraftSum(lengths, i, unit) ==
    IF i > Len(lengths) THEN 0
    ELSE Pow2(unit - lengths[i]) + KraftSum(lengths, i + 1, unit)

HuffmanLengths ==
    UNION {{l \in [1..n -> 1..MaxTreeLen] : KraftSum(l, 1, MaxTreeLen) = Pow2(MaxTreeLen)} :
              n \in 2..MaxTreeSyms}

OneSidedLengths(n) == [i \in 1..n |-> IF i < n THEN i ELSE n - 1]

\* the code table decode_symbol_table leaves for these lengths
TableCodes(lengths) ==
    [s \in 0..(Len(lengths) - 1) |-> [bits |-> NULL, length |-> lengths[s + 1]]]

InitTree ==
    /\ tLengths \in HuffmanLengths \cup {OneSidedLengths(n) : n \in DeepTreeSizes}
    /\ tRoot = NULL
    /\ tAssigned = <<>>
    /\ tPhase = "table"
    /\ IdleExceptTree

\* build_decoding_tree(symbols, codes, count) with symbols[i] = i
BuildDecodingTree ==
    /\ tPhase = "table"
    /\ \E wide \in WideShifts :
           LET Store(t) ==
                   /\ tRoot' = t.root
                   /\ tAssigned' = t.assigned
           IN  Store(build_decoding_tree([i \in 1..Len(tLengths) |-> i - 1],
                                         TableCodes(tLengths), Len(tLengths), wide))
    /\ tPhase' = "built"
    /\ UNCHANGED <<tLengths, exceptTree>>

NextTree == BuildDecodingTree

SpecTree == InitTree /\ [][NextTree]_vars

\* every node below node with the path of '0' / '1' that leads to it
RECURSIVE TreeNodes(_, _)
TreeNodes(node, path) ==
    IF node = NULL THEN {}
    ELSE {[path |-> path, symbol |-> NodeSymbol(node),
           left |-> NodeLeft(node) /= NULL, right |-> NodeRight(node) /= NULL]}
         \cup TreeNodes(NodeLeft(node), Append(path, "0"))
         \cup TreeNodes(NodeRight(node), Append(path, "1"))

\* the bit string plus one
RECURSIVE IncBits(_)
IncBits(bits) ==
    IF bits = <<>> THEN <<>>
    ELSE IF bits[Len(bits)] = "0" THEN [bits EXCEPT ![Len(bits)] = "1"]
    ELSE Append(IncBits(SubSeq(bits, 1, Len(bits) - 1)), "0")

\* symbols ordered by code length, ties in increasing symbol index
LengthOrder(lengths) ==
    LET Before(a, b) == lengths[a] < lengths[b] \/ (lengths[a] = lengths[b] /\ a < b)
        Rank(a) == Cardinality({b \in 1..Len(lengths) : Before(b, a)}) + 1
    IN  [r \in 1..Len(lengths) |-> (CHOOSE a \in 1..Len(lengths) : Rank(a) = r) - 1]

\* consecutive integers, left-shifted by the length difference, as bit strings
RECURSIVE ConsecutiveCodes(_, _, _, _)
ConsecutiveCodes(order, lengths, r, done) ==
    IF r > Len(order) THEN done
    ELSE LET length == lengths[order[r] + 1]
             code == IF r = 1 THEN [b \in 1..length |-> "0"]
                     ELSE IncBits(done[r - 1])
                              \o [b \in 1..(length - Len(done[r - 1])) |-> "0"]
         IN  ConsecutiveCodes(order, lengths, r + 1, Append(done, code))

TreeAsStated(lengths, root, assigned) ==
    LET order == LengthOrder(lengths)
        codes == ConsecutiveCodes(order, lengths, 1, <<>>)
        nodes == TreeNodes(root, <<>>)
    IN  /\ [a \in 1..Len(assigned) |-> assigned[a].symbol] = order
        /\ \A r \in 1..Len(order) :
               /\ [path |-> codes[r], symbol |-> order[r], left |-> FALSE, right |-> FALSE]
                      \in nodes
               /\ Len(codes[r]) = lengths[order[r] + 1]
               /\ Cardinality({n \in nodes : n.symbol = order[r]}) = 1
        /\ \A n \in nodes : (n.left \/ n.right) => (n.left /\ n.right /\ n.symbol = -1)

\* C25: build_decoding_tree orders the symbols by code length, ties in
\* increasing symbol index, and assigns consecutive integers left-shifted by
\* the length difference; for every length set of a Huffman tree of two or
\* more symbols each symbol ends at its own leaf at depth equal to its
\* length, no symbol sits on the path to another, and every internal node
\* has two children.
C25_CanonicalTree ==
    tPhase = "built" => TreeAsStated(tLengths, tRoot, tAssigned)

\* the same for the tables whose codes fit the 32 bits of code_value
C25_HoldsUpTo32Bits ==
    (tPhase = "built" /\ \A i \in 1..Len(tLengths) : tLengths[i] <= 32)
        => TreeAsStated(tLengths, tRoot, tAssigned)

\* ------------------------------------------------------------------------
\* Further properties of the quantization specification
\* ------------------------------------------------------------------------
\* |a - b| <= h for fractions
FWithin(a, b, h) == ~FLess(h, FSub(a, b)) /\ ~FLess(h, FSub(b, a))

\* C27: in non-adaptive mode dequantize(quantize(c)) is round(c / Q) * Q for
\* every coefficient c with Q = quant_matrix[i][j], and so differs from c by
\* at most Q / 2.
C27_DequantizeInvertsQuantize ==
    (qPhase = "restored" /\ qCtx.adaptive = 0) =>
        \A i, j \in 1..qCtx.block_size :
            LET Q == qCtx.quant_matrix[i][j]
            IN  /\ qDequantOut[i][j] = FMul(FInt(round(FDiv(qDct[i][j], Q))), Q)
                /\ FWithin(qDequantOut[i][j], qDct[i][j], FDiv(Q, FInt(2)))

\* what the non-adaptive pair computes: round(c / Q) / Q
C27_DividesTwice ==
    (qPhase = "restored" /\ qCtx.adaptive = 0) =>
        \A i, j \in 1..qCtx.block_size :
            LET Q == qCtx.quant_matrix[i][j]
            IN  qDequantOut[i][j] = FDiv(FInt(round(FDiv(qDct[i][j], Q))), Q)

\* ------------------------------------------------------------------------
\* The standalone transform of main.c next to the library's
\* ------------------------------------------------------------------------
\* main.c, void dct_forward(ctx, input, output): temp = DCT * input,
\* output = temp * DCT^T
main_dct_forward(ctx, input) ==
    LET Rows(temp) == dct_pass(temp, ctx.transposed_dct, ctx.block_size)
    IN  Rows(dct_pass(ctx.dct_matrix, input, ctx.block_size))

\* the elements "input[k][k]" the first pass of main.c's dct_inverse reads
\* for temp[i][j]: the same for every j
main_inverse_operand(input, size) ==
    Stored([k \in 1..size |-> Stored([j \in 1..size |-> input[k][k]])])

\* main.c, void dct_inverse(ctx, input, output):
\* temp[i][j] += transposed_dct[i][k] * input[k][k], output = temp * DCT
main_dct_inverse(ctx, input) ==
    LET Rows(temp) == dct_pass(temp, ctx.dct_matrix, ctx.block_size)
    IN  Rows(dct_pass(ctx.transposed_dct, main_inverse_operand(input, ctx.block_size),
                      ctx.block_size))

InitMain ==
    /\ \E N \in {4, 8} :
          /\ nCtx = dct_init(N)
          /\ nIn \in DctBlocks(N)
    /\ nFn \in {"dct_forward", "dct_inverse"}
    /\ nLib = <<>>
    /\ nMain = <<>>
    /\ IdleExceptMain

\* the function of src/dct.c on the block
LibraryTransform ==
    /\ nFn \in {"dct_forward", "dct_inverse"}
    /\ nLib = <<>>
    /\ nLib' = IF nFn = "dct_forward" THEN dct_forward(nCtx, nIn)
               ELSE dct_inverse(nCtx, nIn)
    /\ UNCHANGED <<nCtx, nIn, nFn, nMain, exceptMain>>

\* the function of main.c on the same block
MainTransform ==
    /\ nFn \in {"dct_forward", "dct_inverse"}
    /\ nMain = <<>>
    /\ nMain' = IF nFn = "dct_forward" THEN main_dct_forward(nCtx, nIn)
                ELSE main_dct_inverse(nCtx, nIn)
    /\ UNCHANGED <<nCtx, nIn, nFn, nLib, exceptMain>>

NextMain == LibraryTransform \/ MainTransform

SpecMain == InitMain /\ [][NextMain]_vars

\* element (i, j) of the product a * b * c of three N x N matrices: the sum
\* of a[i][k] * b[k][l] * c[l][j] over all k, l, from the n-th pair on
RECURSIVE TripleSum(_, _, _, _, _, _, _, _)
TripleSum(acc, a, b, c, i, j, n, N) ==
    IF n > N * N THEN acc
    ELSE LET k == ((n - 1) \div N) + 1
             l == ((n - 1) % N) + 1
             nxt == CAdd(acc, CMul(CMul(a[i][k], b[k][l], N), c[l][j], N))
         IN  IF Len(nxt) = N   \* always true
             THEN TripleSum(nxt, a, b, c, i, j, n + 1, N)
             ELSE nxt

\* the result the transform named fn is to have on input
Transform(fn, ctx, input, i, j) ==
    IF fn = "dct_forward"
    THEN TripleSum(CZero(ctx.block_size), ctx.dct_matrix, input, ctx.transposed_dct,
                   i, j, 1, ctx.block_size)
    ELSE TripleSum(CZero(ctx.block_size), ctx.transposed_dct, input, ctx.dct_matrix,
                   i, j, 1, ctx.block_size)

\* C28: the library's dct_forward / dct_inverse and the copies in main.c both
\* compute C * input * C^T (forward) and C^T * input * C (inverse) element for
\* element, and so agree on every input.
C28_BothComputeTheProduct ==
    /\ nLib /= <<>> =>
           \A i, j \in 1..nCtx.block_size : nLib[i][j] = Transform(nFn, nCtx, nIn, i, j)
    /\ nMain /= <<>> =>
           \A i, j \in 1..nCtx.block_size : nMain[i][j] = Transform(nFn, nCtx, nIn, i, j)
    /\ (nLib /= <<>> /\ nMain /= <<>>) => nLib = nMain

\* the same without the inverse of main.c
C28_HoldsButMainInverse ==
    /\ nLib /= <<>> =>
           \A i, j \in 1..nCtx.block_size : nLib[i][j] = Transform(nFn, nCtx, nIn, i, j)
    /\ (nMain /= <<>> /\ nFn = "dct_forward") =>
           /\ \A i, j \in 1..nCtx.block_size :
                  nMain[i][j] = Transform(nFn, nCtx, nIn, i, j)
           /\ nLib /= <<>> => nLib = nMain

\* ------------------------------------------------------------------------
\* entropy_decode_block step by step: the symbol loop and the tree walk
\* ------------------------------------------------------------------------
\* the bytes entropy_encode_block writes for a block
EncodedBytes(N, block) ==
    LET Cut(e) == SubSeq(e.output, 1, e.output_size)
    IN  Cut(entropy_encode_block(N, block, [k \in 1..BigCap |-> 0], BigCap))

\* inputs of the decoder: encoded blocks and the hand-made streams, whole or
\* cut short by up to MaxCut bytes
MaxCut == 3
LoopInputs ==
    {[n |-> 2, bytes |-> EncodedBytes(2, b)] : b \in CodecBlocks(2)}
        \cup {[n |-> 4, bytes |-> EncodedBytes(4, b)] : b \in CodecBlocks4}
        \cup {[n |-> hm.n, bytes |-> HandMadeBytes(hm)] : hm \in HandMadeStreams}

InitLoop ==
    /\ \E input \in LoopInputs :
          \E input_size \in 0..Len(input.bytes) :
              /\ input_size >= Len(input.bytes) - MaxCut
              /\ lN = input.n
              /\ lReader = bit_reader_init(input.bytes, input_size)
    /\ lTable = <<>>
    /\ lRoot = NULL
    /\ lNode = NULL
    /\ lData = <<>>
    /\ lPos = 0
    /\ lTrace = [iterations |-> 0, bits |-> 0, stop |-> ""]
    /\ lRet = 0
    /\ lPhase = "called"
    /\ IdleExceptLoop

\* entropy.c:741-762: the symbol table, the tree and the calloc'ed zigzag_data
DecodeHeader ==
    /\ lPhase = "called"
    /\ \E wide \in WideShifts :
           LET Store(t) ==
                   IF t.ret < 0
                   THEN /\ lRet' = -1
                        /\ lPhase' = "returned"
                        /\ lTrace' = [lTrace EXCEPT !.stop = "header"]
                        /\ UNCHANGED <<lReader, lTable, lRoot, lData>>
                   ELSE /\ lReader' = t.r
                        /\ lTable' = t.original_symbols
                        /\ lRoot' = build_decoding_tree(t.symbols, t.codes, t.count, wide).root
                        /\ lData' = [k \in 1..(lN * lN) |-> 0]
                        /\ lPhase' = "loop"
                        /\ UNCHANGED <<lRet, lTrace>>
           IN  Store(decode_symbol_table(lReader))
    /\ UNCHANGED <<lN, lNode, lPos, exceptLoop>>

\* "while (zigzag_pos < total_size)" and "HuffNode *node = root"
LoopTest ==
    /\ lPhase = "loop"
    /\ IF lPos < lN * lN
       THEN /\ lNode' = lRoot
            /\ lTrace' = [lTrace EXCEPT !.iterations = @ + 1]
            /\ lPhase' = "walk"
       ELSE /\ lPhase' = "fill"
            /\ lTrace' = [lTrace EXCEPT !.stop = "full"]
            /\ UNCHANGED lNode
    /\ UNCHANGED <<lN, lReader, lTable, lRoot, lData, lPos, lRet, exceptLoop>>

\* one iteration of "while (node->left || node->right)", or its end
WalkStep ==
    /\ lPhase = "walk"
    /\ IF NodeLeft(lNode) = NULL /\ NodeRight(lNode) = NULL
       THEN /\ lPhase' = "leaf"
            /\ UNCHANGED <<lReader, lNode, lTrace>>
       ELSE LET b == bit_reader_read_bit(lReader)
                child == IF b.bit = 0 THEN NodeLeft(lNode) ELSE NodeRight(lNode)
            IN  IF b.ret < 0
                THEN /\ lPhase' = "broken"
                     /\ lTrace' = [lTrace EXCEPT !.stop = "underflow"]
                     /\ UNCHANGED <<lReader, lNode>>
                ELSE /\ lReader' = b.r
                     /\ IF child /= NULL
                        THEN /\ lNode' = child
                             /\ lTrace' = [lTrace EXCEPT !.bits = @ + 1]
                             /\ lPhase' = "walk"
                        ELSE /\ lTrace' = [lTrace EXCEPT !.bits = @ + 1, !.stop = "dead"]
                             /\ lPhase' = "broken"
                             /\ UNCHANGED lNode
    /\ UNCHANGED <<lN, lTable, lRoot, lData, lPos, lRet, exceptLoop>>

\* "if (!node->left && !node->right)": the pair of the leaf is expanded. A
\* symbol that is no index of the table makes the read of original_symbols
\* undefined: it finds any pair, or the call does not return
LeafSymbol ==
    /\ lPhase = "leaf"
    /\ LET symbol == NodeSymbol(lNode)
           Expand(original) ==
               LET e == expand_symbol(lData, lPos, original[1],
                                      unfold_value(original[2]), lN * lN)
               IN  /\ lData' = e.data
                   /\ lPos' = e.pos
                   /\ lPhase' = IF e.stop THEN "fill" ELSE "loop"
                   /\ lTrace' = IF e.stop THEN [lTrace EXCEPT !.stop = "eob"] ELSE lTrace
       IN  IF symbol >= 0 /\ symbol < Len(lTable)
           THEN Expand(lTable[symbol + 1])
           ELSE \/ \E stray \in StrayPairs : Expand(stray)
                \/ /\ lPhase' = "crashed"
                   /\ lTrace' = [lTrace EXCEPT !.stop = "crashed"]
                   /\ UNCHANGED <<lData, lPos>>
    /\ UNCHANGED <<lN, lReader, lTable, lRoot, lNode, lRet, exceptLoop>>

\* "else { break; }" after a walk that ended inside the tree
InvalidCode ==
    /\ lPhase = "broken"
    /\ lPhase' = "fill"
    /\ UNCHANGED <<lN, lReader, lTable, lRoot, lNode, lData, lPos, lTrace, lRet, exceptLoop>>

\* entropy.c:817-870: the rest is filled with zeros and 0 is returned
FillAndReturn ==
    /\ lPhase = "fill"
    /\ lData' = ZeroRange(lData, lPos, lN * lN)
    /\ lPos' = lN * lN
    /\ lRet' = 0
    /\ lPhase' = "returned"
    /\ UNCHANGED <<lN, lReader, lTable, lRoot, lNode, lTrace, exceptLoop>>

NextLoop ==
    \/ DecodeHeader
    \/ LoopTest
    \/ WalkStep
    \/ LeafSymbol
    \/ InvalidCode
    \/ FillAndReturn

SpecLoop == InitLoop /\ [][NextLoop]_vars

\* bits of the input the reader has consumed, and those it has left
BitsRead(r) == 8 * r.byte_pos + r.bit_pos
BitsLeft(r) == IF r.byte_pos >= r.capacity THEN 0 ELSE 8 * r.capacity - BitsRead(r)

\* a natural number that bounds the steps the call can still take: the
\* zigzag positions to fill count most, then the bits left for the walk
StepsBound ==
    LET most == 8 * lReader.capacity + 5
        here == CASE lPhase = "loop" -> most - 1
                  [] lPhase = "walk" -> BitsLeft(lReader) + 3
                  [] lPhase \in {"leaf", "broken"} -> 2
                  [] lPhase = "fill" -> 1
                  [] OTHER -> 0
    IN  IF lPhase = "called" THEN (lN * lN + 1) * most + 1
        ELSE IF lPhase \in {"returned", "crashed", "idle"} THEN 0
        ELSE (lN * lN - lPos) * most + here

\* C29: entropy_decode_block terminates for every input and size: an
\* iteration of the symbol loop that does not leave the loop fills at least
\* one more zigzag position, and every step of a tree walk consumes one
\* input bit (or finds none and leaves); so every step of the call lowers a
\* natural number, and the call cannot go on for ever.
C29_DecodeTerminates ==
    /\ [][(lPhase = "leaf" /\ lPhase' = "loop") => lPos' > lPos]_vars
    /\ [][(lPhase = "walk" /\ lPhase' = "walk")
              => BitsRead(lReader') = BitsRead(lReader) + 1]_vars
    /\ [][(lPhase = "walk" /\ lPhase' = "broken")
              => \/ BitsRead(lReader') = BitsRead(lReader) + 1
                 \/ lReader.byte_pos >= lReader.capacity]_vars
    /\ [][StepsBound' < StepsBound /\ StepsBound' >= 0]_vars

\* a call that went round the symbol loop more than once, read bits in its
\* walks and left the loop because the input ran out
C29_Witness ==
    /\ lPhase = "returned"
    /\ lTrace.iterations >= 3
    /\ lTrace.bits >= 3
    /\ lTrace.stop = "underflow"
    /\ lPos = lN * lN

\* ------------------------------------------------------------------------
\* Chroma subsampling
\* ------------------------------------------------------------------------
\* image_get_cb or image_get_cr, as named
chroma_at(img, which, x, y) ==
    IF which = "cb" THEN image_get_cb(img, x, y) ELSE image_get_cr(img, x, y)

\* "unsigned char cb_sum = 0; int count = 0;" and the loop over the source
\* positions of one output sample, from the k-th on: cb_sum += image_get_cb(..)
\* on an unsigned char keeps the sum modulo 256
RECURSIVE chroma_sum(_, _, _, _, _)
chroma_sum(img, which, cells, k, acc) ==
    IF k > Len(cells) THEN acc
    ELSE chroma_sum(img, which, cells, k + 1,
             IF cells[k][1] < img.width /\ cells[k][2] < img.height
             THEN [sum   |-> (acc.sum + chroma_at(img, which, cells[k][1], cells[k][2])) % 256,
                   count |-> acc.count + 1]
             ELSE acc)

\* "count ? cb_sum / count : 128"
chroma_average(acc) == IF acc.count /= 0 THEN acc.sum \div acc.count ELSE 128

\* source positions the loops visit for output sample (x, y), in their order
source_cells(mode, x, y) ==
    IF mode = "SUBSAMPLE_422" THEN << <<2 * x, y>>, <<2 * x + 1, y>> >>
    ELSE IF mode = "SUBSAMPLE_420"
    THEN << <<2 * x, 2 * y>>, <<2 * x + 1, 2 * y>>,
            <<2 * x, 2 * y + 1>>, <<2 * x + 1, 2 * y + 1>> >>
    ELSE << <<x, y>> >>

\* int image_apply_subsampling(Image *ycbcr, SubsamplingMode mode): the value
\* returned and the image afterwards (the luma plane, copied as it is, is
\* not part of the record)
image_apply_subsampling(ycbcr, mode) ==
    IF ycbcr.format /= "FORMAT_YCBCR" THEN [ret |-> -1, img |-> ycbcr]
    ELSE IF ycbcr.subsampling = mode THEN [ret |-> 0, img |-> ycbcr]
    ELSE LET Planes(cw, ch) ==
                 LET Sample(which, x, y) ==
                         IF mode = "SUBSAMPLE_444" THEN chroma_at(ycbcr, which, x, y)
                         ELSE chroma_average(
                                  chroma_sum(ycbcr, which, source_cells(mode, x, y), 1,
                                             [sum |-> 0, count |-> 0]))
                     Plane(which) ==
                         [k \in 1..(cw * ch) |-> Sample(which, (k - 1) % cw, (k - 1) \div cw)]
                 IN  [ycbcr EXCEPT !.subsampling = mode,
                                   !.cb_width = cw, !.cb_height = ch,
                                   !.cr_width = cw, !.cr_height = ch,
                                   !.cb_channel = Stored(Plane("cb")),
                                   !.cr_channel = Stored(Plane("cr"))]
         IN  [ret |-> 0,
              img |-> Planes(chroma_size(ycbcr.width, ycbcr.height, mode)[1],
                             chroma_size(ycbcr.width, ycbcr.height, mode)[2])]

\* largest width and height of the images subsampled
MaxSubDim == 3
\* chroma values of the top-left 2 x 2 pixels
ChromaLevels == {0, 90, 128, 255}

\* a 4:4:4 YCbCr image whose top-left 2 x 2 pixels have the Cb values given
\* (in row-major order) and the Cr values 255 - Cb
FullImage(width, height, corner) ==
    LET At(k) == IF ((k - 1) % width) < 2 /\ ((k - 1) \div width) < 2
                 THEN corner[2 * ((k - 1) \div width) + ((k - 1) % width) + 1]
                 ELSE 16 + k
    IN  [SubsampledImage(width, height, "SUBSAMPLE_444") EXCEPT
            !.cb_channel = [k \in 1..(width * height) |-> At(k)],
            !.cr_channel = [k \in 1..(width * height) |-> 255 - At(k)]]

InitSub ==
    /\ aSrc \in {FullImage(w, h, corner) :
                    w \in 1..MaxSubDim, h \in 1..MaxSubDim,
                    corner \in [1..4 -> ChromaLevels]}
                \cup {RgbImage(2, 2)}
    /\ aMode \in SubsamplingModes
    /\ aImg = aSrc
    /\ aRet = 0
    /\ aPhase = "ready"
    /\ IdleExceptSub

ImageApplySubsampling ==
    /\ aPhase = "ready"
    /\ LET Store(r) ==
               /\ aImg' = r.img
               /\ aRet' = r.ret
       IN  Store(image_apply_subsampling(aSrc, aMode))
    /\ aPhase' = "returned"
    /\ UNCHANGED <<aSrc, aMode, exceptSub>>

NextSub == ImageApplySubsampling

SpecSub == InitSub /\ [][NextSub]_vars

\* source samples of channel that output sample (x, y) covers
Covered(x, y) ==
    {c \in {source_cells(aMode, x, y)[k] : k \in 1..Len(source_cells(aMode, x, y))} :
        c[1] < aSrc.width /\ c[2] < aSrc.height}

RECURSIVE SourceSum(_, _)
SourceSum(channel, cells) ==
    IF cells = {} THEN 0
    ELSE LET c == CHOOSE c \in cells : TRUE
         IN  channel[c[2] * aSrc.width + c[1] + 1] + SourceSum(channel, cells \ {c})

AveragesStored ==
    \A x \in 0..(aImg.cb_width - 1), y \in 0..(aImg.cb_height - 1) :
        /\ aImg.cb_channel[y * aImg.cb_width + x + 1]
               = SourceSum(aSrc.cb_channel, Covered(x, y)) \div Cardinality(Covered(x, y))
        /\ aImg.cr_channel[y * aImg.cr_width + x + 1]
               = SourceSum(aSrc.cr_channel, Covered(x, y)) \div Cardinality(Covered(x, y))

\* C30: for chroma values 0..255, image_apply_subsampling stores in every
\* output sample the integer average (sum divided by count) of the source Cb
\* and Cr samples it covers: the horizontal pair for 4:2:2, the 2 x 2 block
\* for 4:2:0, fewer at the right and bottom edge of odd-sized images.
C30_StoresAverage ==
    (aPhase = "returned" /\ aRet = 0 /\ aMode /= "SUBSAMPLE_444") => AveragesStored

\* the same where no sum of covered samples reaches 256
C30_HoldsBelow256 ==
    (/\ aPhase = "returned" /\ aRet = 0 /\ aMode /= "SUBSAMPLE_444"
     /\ \A x \in 0..(aImg.cb_width - 1), y \in 0..(aImg.cb_height - 1) :
            /\ SourceSum(aSrc.cb_channel, Covered(x, y)) < 256
            /\ SourceSum(aSrc.cr_channel, Covered(x, y)) < 256)
        => AveragesStored

====
